---------------------------- MODULE Spec2Model ----------------------------
(***************************************************************************)
(* Reminder scheduling engine of PsyBot: the notification scheduler's tick *)
(* (periodic reminders, the two weekly broadcasts, the session-relative    *)
(* reflection prompt), the trial gate, the activity suppressor, and the    *)
(* conversational handlers that run on the same event loop and share the   *)
(* scheduler's thread-scoped database session.                             *)
(*                                                                         *)
(* Time is the server's wall clock in whole minutes since a Sunday 00:00   *)
(* (server-local).  A datetime is a number of minutes, a date a number of  *)
(* days, an "HH:MM" string the minute of the day.                          *)
(***************************************************************************)
EXTENDS Integers, Sequences, FiniteSets, TLC

(***************************************************************************)
(* Program constants                                                       *)
(***************************************************************************)
SERVER_UTC_OFFSET == 3
ACTIVE_INTERACTION_THRESHOLD == 15
TRIAL_DURATION_DAYS == 14
REFLECTION_DELAY_HOURS == 5
CLEANUP_DAYS == 2
None == -1

(***************************************************************************)
(* Bounds of the model                                                     *)
(***************************************************************************)
MaxTicks == 2        \* ticks of the scheduler in one behaviour
MaxOps == 2          \* inbound updates (handler runs) in one behaviour
MaxCrashes == 1      \* process restarts in one behaviour
MaxLoopTicks == 4    \* ticks in the model of the tick loop in seconds
MaxLifeOps == 6      \* account updates (/reset, registration) in one behaviour
MaxRefusals == 1     \* sends the transport refuses in one behaviour

Hours(n) == n * 60
Days(n) == n * 1440
HM(h, m) == h * 60 + m

(***************************************************************************)
(* datetime helpers: strftime("%H:%M"), strftime("%Y-%m-%d"),              *)
(* strftime("%A") of a datetime given in minutes.                          *)
(***************************************************************************)
StrfHM(t) == t % Days(1)
StrfDate(t) == t \div Days(1)
IsSunday(t) == StrfDate(t) % 7 = 0

\* server_time - timedelta(hours=SERVER_UTC_OFFSET) + timedelta(hours=tz)
UserLocalTime(st, tz) ==
    (st - Hours(SERVER_UTC_OFFSET)) + Hours(tz)

\* self.notification_times
notification_times ==
    [f \in {1, 2, 4, 6} |->
        CASE f = 1 -> {HM(16, 0)}
          [] f = 2 -> {HM(12, 0), HM(17, 0)}
          [] f = 4 -> {HM(12, 0), HM(15, 0), HM(17, 0), HM(20, 0)}
          [] f = 6 -> {HM(11, 0), HM(13, 0), HM(15, 0), HM(17, 0), HM(19, 0), HM(21, 0)}]

(***************************************************************************)
(* Dedup keys.  A key is the string the code formats, kept as the sequence *)
(* of its "_"-separated parts; a part is <<"n", number>> for a number, a   *)
(* date or an HH:MM, and <<"w", word>> for a word.                         *)
(***************************************************************************)
PeriodicKey(tg, date, hm) == << <<"n", tg>>, <<"n", date>>, <<"n", hm>> >>
MotivationKey(tg, date) == << <<"n", tg>>, <<"w", "motivation">>, <<"n", date>> >>
\* a variant that formats the weekly key like the key of the 17:00 slot
WeeklyReflectionKeyLikeSlot(tg, date) == PeriodicKey(tg, date, HM(17, 0))
WeeklyReflectionKey(tg, date) ==
    << <<"n", tg>>, <<"w", "weekly">>, <<"w", "reflection">>, <<"n", date>> >>

(***************************************************************************)
(* The data store.  users and sessions are the committed tables, indexed   *)
(* by the integer primary key.                                             *)
(***************************************************************************)
UID == 1 .. 3
SID == 1 .. 2
TG == {101, 102}

NoUser ==
    [present |-> FALSE, tg |-> 0, name |-> FALSE, freq |-> 1, tz |-> 0,
     label |-> <<>>, reg |-> FALSE, premium |-> FALSE, tstart |-> None,
     tend |-> None, texp |-> FALSE, last |-> None]

NoSession ==
    [present |-> FALSE, uid |-> 0, sat |-> None, rat |-> None, sent |-> FALSE]

\* User(telegram_id=...) with the column defaults of the model class
NewUser(tg) == [NoUser EXCEPT !.present = TRUE, !.tg = tg]

\* An object of the scheduler's session: st is "none" (no object), "loaded"
\* or "expired"; att says whether it is still attached to the session.
NoUObj == [st |-> "none", att |-> FALSE, row |-> NoUser]
NoSObj == [st |-> "none", att |-> FALSE, row |-> NoSession]

VARIABLES
    now,          \* datetime.now() of the server, in minutes
    users,        \* table users
    sessions,     \* table therapy_sessions
    sent_today,   \* NotificationScheduler.sent_today (its keys)
    running,      \* NotificationScheduler.running
    pc,           \* where the scheduler coroutine is
    server_time,  \* check_and_send_notifications: server_time
    ulist,        \* ... users (the primary keys of the objects, in order)
    qfreq,        \* the notification_frequency of every row at that query
    idx,          \* ... position of the per-user loop
    ult,          \* ... user_local_time of the current iteration
    iss,          \* the send awaited by the scheduler
    uobj,         \* the User objects the tick holds
    pend,         \* ... pending_reflections (primary keys, in order)
    ridx,         \* ... position of the reflection loop
    cur,          \* ... user of the current reflection iteration (key or 0)
    sobj,         \* the TherapySession objects the tick holds
    hopen,        \* a handler has yet to close the session it used
    fsm,          \* the registration step the dispatcher holds for each chat
    log,          \* messages the transport accepted
    ticks, ops, crashes,
    lt, lphase, lmin,   \* the tick loop on a sub-minute clock
    lpurge,       \* ... the seconds at which the loop ran the dedup purge
    stopped,      \* stop() has been called
    cut,          \* the await at which the scheduler task was cancelled
    fin, fout,    \* a call of a function of the program and what it returned
    was_expired,  \* the chats whose row has had trial_expired set
    fdata         \* the data each chat's dialogue state holds

dbvars == <<users, sessions>>
tickvars == <<pc, server_time, ulist, qfreq, idx, ult, iss, uobj, pend, ridx, cur, sobj>>
loopvars == <<lt, lphase, lmin, lpurge>>
stopvars == <<stopped, cut>>
funvars == <<fin, fout>>
obsvars == <<was_expired>>
vars == <<now, users, sessions, sent_today, running, pc, server_time, ulist, qfreq,
          idx, ult, iss, uobj, pend, ridx, cur, sobj, hopen, fsm, log, ticks, ops,
          crashes, lt, lphase, lmin, lpurge, stopped, cut, fin, fout, was_expired,
          fdata>>

(***************************************************************************)
(* trial_manager.check_trial_status: the status it returns                 *)
(***************************************************************************)
\* a variant in which the trial is over at its last minute already
GateStatusAtEnd(u, t) ==
    IF u.premium THEN "premium"
    ELSE IF u.tstart = None \/ u.tend = None THEN "no_trial"
    ELSE IF t >= u.tend THEN "trial_expired"
    ELSE "trial_active"

GateStatus(u, t) ==
    IF u.premium THEN "premium"
    ELSE IF u.tstart = None \/ u.tend = None THEN "no_trial"
    ELSE IF t > u.tend THEN "trial_expired"
    ELSE "trial_active"

\* activity_tracker.is_user_actively_interacting, on the object's fields
\* a variant that leaves the boundary of the threshold out
is_user_actively_interactingStrict(u, t) ==
    u.last # None /\ t - u.last < ACTIVE_INTERACTION_THRESHOLD

is_user_actively_interacting(u, t) ==
    IF u.last = None THEN FALSE
    ELSE t - u.last <= ACTIVE_INTERACTION_THRESHOLD

(***************************************************************************)
(* The thread-scoped SQLAlchemy session (database/session.py).  Every      *)
(* coroutine of the event loop gets the same Session from get_session().   *)
(* commit() expires the objects attached to it; close() detaches them.  An *)
(* attribute of an expired object is reloaded when it is read, which needs *)
(* the object attached and its row present; a loaded object keeps the      *)
(* values it was loaded with, attached or not.                             *)
(***************************************************************************)
ExpireAll(objs) ==
    [k \in DOMAIN objs |->
        IF objs[k].att /\ objs[k].st = "loaded"
        THEN [objs[k] EXCEPT !.st = "expired"] ELSE objs[k]]

DetachAll(objs) == [k \in DOMAIN objs |-> [objs[k] EXCEPT !.att = FALSE]]

Readable(o, dbrow) ==
    o.st = "loaded" \/ (o.st = "expired" /\ o.att /\ dbrow.present)

AfterRead(o, dbrow) ==
    IF o.st = "expired" THEN [st |-> "loaded", att |-> TRUE, row |-> dbrow] ELSE o

\* session.query(User).filter(User.id == uid).first() when the row exists:
\* the attached object if there is one (reloaded if expired), else a new one
QueryFirst(o, dbrow) ==
    IF o.att /\ o.st = "loaded" THEN o
    ELSE [st |-> "loaded", att |-> TRUE, row |-> dbrow]

Loaded(dbrow) == [st |-> "loaded", att |-> TRUE, row |-> dbrow]

RECURSIVE SortedSeq(_)
SortedSeq(S) ==
    IF S = {} THEN <<>>
    ELSE LET m == CHOOSE x \in S : \A y \in S : x <= y
         IN <<m>> \o SortedSeq(S \ {m})

(***************************************************************************)
(* trial_manager.check_and_update_expired_trials                           *)
(***************************************************************************)
\* a variant that takes the trial's last minute as past
SweepHitsAtEnd(tab, t) ==
    {u \in UID : /\ tab[u].present
                 /\ tab[u].tend # None
                 /\ tab[u].tend <= t
                 /\ ~tab[u].premium
                 /\ ~tab[u].texp
                 /\ tab[u].reg}

SweepHits(tab, t) ==
    {u \in UID : /\ tab[u].present
                 /\ tab[u].tend # None
                 /\ tab[u].tend < t
                 /\ ~tab[u].premium
                 /\ ~tab[u].texp
                 /\ tab[u].reg}

\* a variant for a tick that reads its user list before the sweep has
\* committed: the query sees the rows as they were
check_and_update_expired_trialsAfterQuery(tab, t) == tab

check_and_update_expired_trials(tab, t) ==
    [u \in UID |-> IF u \in SweepHits(tab, t)
                   THEN [tab[u] EXCEPT !.texp = TRUE] ELSE tab[u]]

\* variants of the user query: without the trial_expired filter, and without
\* the notification_frequency filter
UserQueryNoGate(tab) ==
    {u \in UID : /\ tab[u].present
                 /\ tab[u].reg
                 /\ tab[u].name
                 /\ tab[u].freq > 0}

UserQueryAnyFrequency(tab) ==
    {u \in UID : /\ tab[u].present
                 /\ tab[u].reg
                 /\ tab[u].name
                 /\ ~tab[u].texp}

\* check_and_send_notifications: the user query (lines 239-245)
UserQuery(tab) ==
    {u \in UID : /\ tab[u].present
                 /\ tab[u].reg
                 /\ tab[u].name
                 /\ tab[u].freq > 0
                 /\ ~tab[u].texp}

\* a variant of the test of line 317 that applies the gates of the user loop
ReflectionRecipientGated(u) ==
    u.reg /\ u.freq > 0 /\ ~u.texp /\ ~is_user_actively_interacting(u, now)

\* line 317: "if user and user.registration_complete", on the loaded object
ReflectionRecipient(u) == u.reg

\* check_and_send_notifications: the pending reflections query (309-312)
PendingQuery(stab, st) ==
    {s \in SID : stab[s].present /\ stab[s].rat <= st /\ ~stab[s].sent}

(***************************************************************************)
(* NotificationScheduler.should_send_notification / mark_notification_sent *)
(* / cleanup_old_tracking, on the fields of the User object                *)
(***************************************************************************)
KeyOfNow(u, st) ==
    PeriodicKey(u.tg, StrfDate(UserLocalTime(st, u.tz)),
                StrfHM(UserLocalTime(st, u.tz)))

should_send_notification(u, st, sent) ==
    IF u.freq = 0 \/ u.freq \notin DOMAIN notification_times THEN FALSE
    ELSE IF StrfHM(UserLocalTime(st, u.tz)) \notin notification_times[u.freq]
         THEN FALSE
    ELSE IF KeyOfNow(u, st) \in sent THEN FALSE
    ELSE TRUE

mark_notification_sent(u, st, sent) == sent \cup {KeyOfNow(u, st)}

\* key.split("_")[1] < cutoff_date: a string comparison; a word ("motivation",
\* "weekly") starts with a letter and so is never below a date, which starts
\* with a digit.
PartBelowDate(part, cutoff) == part[1] = "n" /\ part[2] < cutoff

\* a variant whose cutoff is the server's date
cleanup_old_trackingToday(sent, t) ==
    {k \in sent : ~PartBelowDate(k[2], StrfDate(t))}

cleanup_old_tracking(sent, t) ==
    {k \in sent : ~PartBelowDate(k[2], StrfDate(t - Days(CLEANUP_DAYS)))}

(***************************************************************************)
(* The scheduler coroutine.  pc names the place it is at; at "psend",      *)
(* "msend", "wsend", "rsend" it awaits bot.send_message, at "pslept",      *)
(* "mslept", "wslept", "rslept" the asyncio.sleep(0.5) after a send, at    *)
(* "sleep" the asyncio.sleep(60) of run_scheduler.  Other coroutines run   *)
(* only while it awaits.                                                   *)
(***************************************************************************)
AwaitPcs == {"psend", "pslept", "msend", "mslept", "wsend", "wslept",
             "rsend", "rslept", "sleep"}

\* A call of bot.send_message: the chat it goes to, and what the store held
\* for the user when the call was made (dbfreq, dbtz, gate, active) and when the
\* tick queried its users (qfreq).
Send(kind, u, uid, sid, key) ==
    [kind |-> kind, tg |-> u.tg, uid |-> uid, sid |-> sid, key |-> key,
     dbfreq |-> users[uid].freq, dbtz |-> users[uid].tz, qfreq |-> qfreq[uid],
     gate |-> GateStatus(users[uid], server_time),
     texp |-> users[uid].texp,
     active |-> is_user_actively_interacting(users[uid], now)]

NoSendRec ==
    [kind |-> "none", tg |-> 0, uid |-> 0, sid |-> 0, key |-> <<>>,
     dbfreq |-> 0, dbtz |-> 0, qfreq |-> 0, gate |-> "none", texp |-> FALSE,
     active |-> FALSE]

\* The record of a call that returned: ok says whether the transport accepted
\* the message, at is the tick's server_time, seg the process lifetime segment
Refusals == Cardinality({r \in log : ~r.ok})
Transport == {ok \in BOOLEAN : ok \/ Refusals < MaxRefusals}

LogRec(i, st, ok) ==
    [kind |-> i.kind, tg |-> i.tg, uid |-> i.uid, sid |-> i.sid, key |-> i.key,
     at |-> st, ok |-> ok, seg |-> crashes, dbfreq |-> i.dbfreq, dbtz |-> i.dbtz,
     qfreq |-> i.qfreq, gate |-> i.gate, texp |-> i.texp, active |-> i.active]

\* How a send function ends (lines 73-83, 99-109, 126-137, 160-170): an
\* exception of the transport is caught and False returned; the log call of
\* either branch reads user.full_name, and when the object cannot be read that
\* exception leaves the function.  The variant is a send without its except
\* clause.
SendOutcomeUncaught(ok, readable) ==
    IF ~readable \/ ~ok THEN "raises" ELSE "True"

SendOutcome(ok, readable) ==
    IF ~readable THEN "raises" ELSE IF ok THEN "True" ELSE "False"

\* run_scheduler, up to the first tick
RunScheduler ==
    /\ pc = "init"
    /\ running' = TRUE
    /\ pc' = "start"
    /\ UNCHANGED <<now, users, sessions, sent_today, server_time, ulist, qfreq, idx,
                   ult, iss, uobj, pend, ridx, cur, sobj, hopen, fsm, log, ticks,
                   ops, crashes, loopvars, stopvars, funvars, obsvars, fdata>>

\* the chats of the rows whose trial_expired is set
ExpiredChats(tab) == {tab[u].tg : u \in {v \in UID : tab[v].present /\ tab[v].texp}}

\* check_and_send_notifications, lines 225-250: the sweep and the user query
Tick(tab) ==
    /\ LET q == UserQuery(tab)
       IN /\ users' = tab
          /\ ulist' = SortedSeq(q)
          /\ uobj' = [u \in UID |-> IF u \in q THEN Loaded(tab[u]) ELSE NoUObj]
          /\ qfreq' = [u \in UID |-> tab[u].freq]
    /\ server_time' = now
    /\ idx' = 1
    /\ ult' = 0
    /\ iss' = NoSendRec
    /\ pend' = <<>>
    /\ ridx' = 1
    /\ cur' = 0
    /\ sobj' = [s \in SID |-> NoSObj]
    /\ pc' = "user"
    /\ was_expired' = was_expired \cup ExpiredChats(tab)
    /\ UNCHANGED <<now, sessions, sent_today, running, hopen, fsm, log, ticks, ops,
                   crashes, loopvars, stopvars, funvars, fdata>>

TickStart ==
    /\ pc = "start"
    /\ Tick(check_and_update_expired_trials(users, now))

\* the same tick when the store refuses the sweep's commit: the exception is
\* caught in check_and_update_expired_trials (lines 273-276), the rows stay as
\* they were and the tick goes on with the user query
TickStartSweepFails ==
    /\ pc = "start"
    /\ SweepHits(users, now) # {}
    /\ Tick(users)

\* lines 251-272: one user of the loop, up to the periodic send
UserStep ==
    /\ pc \in {"user", "wslept"}
    /\ idx <= Len(ulist)
    /\ LET uid == ulist[idx]
           o == uobj[uid]
           o1 == AfterRead(o, users[uid])
           r == o1.row
       IN IF ~Readable(o, users[uid])
          THEN /\ pc' = "finally"
               /\ UNCHANGED <<idx, ult, iss, uobj>>
          ELSE /\ uobj' = [uobj EXCEPT ![uid] = o1]
               /\ ult' = UserLocalTime(server_time, r.tz)
               /\ IF is_user_actively_interacting(r, now)
                  THEN pc' = "user" /\ idx' = idx + 1 /\ iss' = NoSendRec
                  ELSE IF should_send_notification(r, server_time, sent_today)
                  THEN /\ pc' = "psend"
                       /\ idx' = idx
                       /\ iss' = Send("periodic", r, uid, 0, KeyOfNow(r, server_time))
                  ELSE pc' = "wm" /\ idx' = idx /\ iss' = NoSendRec
    /\ UNCHANGED <<now, users, sessions, sent_today, running, server_time,
                   ulist, qfreq, pend, ridx, cur, sobj, hopen, fsm, log, ticks, ops,
                   crashes, loopvars, stopvars, funvars, obsvars, fdata>>

\* send_emotion_diary_reminder returns (lines 73-83), then lines 266-272
PSendDone ==
    /\ pc = "psend"
    /\ \E ok \in Transport :
         LET uid == iss.uid
             o == uobj[uid]
             o1 == AfterRead(o, users[uid])
         IN /\ log' = log \cup {LogRec(iss, server_time, ok)}
            /\ IF SendOutcome(ok, Readable(o, users[uid])) = "raises"
               THEN /\ pc' = "finally"
                    /\ UNCHANGED <<uobj, sent_today>>
               ELSE /\ uobj' = [uobj EXCEPT ![uid] = o1]
                    /\ sent_today' =
                         IF ok THEN mark_notification_sent(o1.row, server_time, sent_today)
                         ELSE sent_today
                    /\ pc' = "pslept"
    /\ UNCHANGED <<now, users, sessions, running, server_time, ulist, qfreq, idx, ult,
                   iss, pend, ridx, cur, sobj, hopen, fsm, ticks, ops, crashes,
                   loopvars, stopvars, funvars, obsvars, fdata>>

\* lines 274-290: the weekly motivational message, up to its send
WeeklyMotivation ==
    /\ pc \in {"wm", "pslept"}
    /\ LET uid == ulist[idx]
           o == uobj[uid]
           o1 == AfterRead(o, users[uid])
           k == MotivationKey(o1.row.tg, StrfDate(ult))
       IN IF IsSunday(ult) /\ StrfHM(ult) = HM(10, 0)
          THEN IF ~Readable(o, users[uid])
               THEN pc' = "finally" /\ UNCHANGED <<iss, uobj>>
               ELSE /\ uobj' = [uobj EXCEPT ![uid] = o1]
                    /\ IF k \notin sent_today
                       THEN /\ pc' = "msend"
                            /\ iss' = Send("motivation", o1.row, uid, 0, k)
                       ELSE pc' = "wr" /\ iss' = NoSendRec
          ELSE pc' = "wr" /\ UNCHANGED <<iss, uobj>>
    /\ UNCHANGED <<now, users, sessions, sent_today, running, server_time,
                   ulist, qfreq, idx, ult, pend, ridx, cur, sobj, hopen, fsm, log, ticks,
                   ops, crashes, loopvars, stopvars, funvars, obsvars, fdata>>

\* send_weekly_motivation returns (lines 99-109), then lines 284-290
MSendDone ==
    /\ pc = "msend"
    /\ \E ok \in Transport :
         LET uid == iss.uid
             o == uobj[uid]
         IN /\ log' = log \cup {LogRec(iss, server_time, ok)}
            /\ IF SendOutcome(ok, Readable(o, users[uid])) = "raises"
               THEN /\ pc' = "finally"
                    /\ UNCHANGED <<uobj, sent_today>>
               ELSE /\ uobj' = [uobj EXCEPT ![uid] = AfterRead(o, users[uid])]
                    /\ sent_today' = IF ok THEN sent_today \cup {iss.key}
                                     ELSE sent_today
                    /\ pc' = "mslept"
    /\ UNCHANGED <<now, users, sessions, running, server_time, ulist, qfreq, idx, ult,
                   iss, pend, ridx, cur, sobj, hopen, fsm, ticks, ops, crashes,
                   loopvars, stopvars, funvars, obsvars, fdata>>

\* lines 292-305: the weekly reflection invitation, up to its send
WeeklyReflection ==
    /\ pc \in {"wr", "mslept"}
    /\ LET uid == ulist[idx]
           o == uobj[uid]
           o1 == AfterRead(o, users[uid])
           k == WeeklyReflectionKey(o1.row.tg, StrfDate(ult))
       IN IF IsSunday(ult) /\ StrfHM(ult) = HM(17, 0)
          THEN IF ~Readable(o, users[uid])
               THEN pc' = "finally" /\ UNCHANGED <<idx, iss, uobj>>
               ELSE /\ uobj' = [uobj EXCEPT ![uid] = o1]
                    /\ IF k \notin sent_today
                       THEN /\ pc' = "wsend"
                            /\ idx' = idx
                            /\ iss' = Send("weekly_reflection", o1.row, uid, 0, k)
                       ELSE pc' = "user" /\ idx' = idx + 1 /\ iss' = NoSendRec
          ELSE pc' = "user" /\ idx' = idx + 1 /\ UNCHANGED <<iss, uobj>>
    /\ UNCHANGED <<now, users, sessions, sent_today, running, server_time,
                   ulist, qfreq, ult, pend, ridx, cur, sobj, hopen, fsm, log, ticks, ops,
                   crashes, loopvars, stopvars, funvars, obsvars, fdata>>

\* send_weekly_reflection_reminder returns (lines 159-170), then 299-305
WSendDone ==
    /\ pc = "wsend"
    /\ \E ok \in Transport :
         LET uid == iss.uid
             o == uobj[uid]
         IN /\ log' = log \cup {LogRec(iss, server_time, ok)}
            /\ IF SendOutcome(ok, Readable(o, users[uid])) = "raises"
               THEN /\ pc' = "finally"
                    /\ UNCHANGED <<idx, uobj, sent_today>>
               ELSE /\ uobj' = [uobj EXCEPT ![uid] = AfterRead(o, users[uid])]
                    /\ sent_today' = IF ok THEN sent_today \cup {iss.key}
                                     ELSE sent_today
                    /\ idx' = idx + 1
                    /\ pc' = "wslept"
    /\ UNCHANGED <<now, users, sessions, running, server_time, ulist, qfreq, ult, iss,
                   pend, ridx, cur, sobj, hopen, fsm, ticks, ops, crashes,
                   loopvars, stopvars, funvars, obsvars, fdata>>

\* lines 307-312: the query of the pending reflections, after the user loop
Scan ==
    /\ pc \in {"user", "wslept"}
    /\ idx > Len(ulist)
    /\ LET q == PendingQuery(sessions, server_time)
       IN /\ pend' = SortedSeq(q)
          /\ sobj' = [s \in SID |-> IF s \in q THEN Loaded(sessions[s]) ELSE NoSObj]
    /\ ridx' = 1
    /\ pc' = "refl"
    /\ UNCHANGED <<now, users, sessions, sent_today, running, server_time,
                   ulist, qfreq, idx, ult, iss, uobj, cur, hopen, fsm, log, ticks, ops,
                   crashes, loopvars, stopvars, funvars, obsvars, fdata>>

\* lines 314-318: one pending session, up to the send of its prompt
ReflStep ==
    /\ pc \in {"refl", "rslept"}
    /\ ridx <= Len(pend)
    /\ LET sid == pend[ridx]
           so == sobj[sid]
           so1 == AfterRead(so, sessions[sid])
           uid == so1.row.uid
           uo1 == QueryFirst(uobj[uid], users[uid])
       IN IF ~Readable(so, sessions[sid])
          THEN pc' = "finally" /\ UNCHANGED <<ridx, cur, iss, uobj, sobj>>
          ELSE /\ sobj' = [sobj EXCEPT ![sid] = so1]
               /\ IF users[uid].present
                  THEN /\ uobj' = [uobj EXCEPT ![uid] = uo1]
                       /\ IF ReflectionRecipient(uo1.row)
                          THEN /\ pc' = "rsend"
                               /\ ridx' = ridx
                               /\ cur' = uid
                               /\ iss' = Send("reflection", uo1.row, uid, sid, <<>>)
                          ELSE /\ pc' = "refl"
                               /\ ridx' = ridx + 1
                               /\ UNCHANGED <<cur, iss>>
                  ELSE /\ pc' = "refl"
                       /\ ridx' = ridx + 1
                       /\ UNCHANGED <<cur, iss, uobj>>
    /\ UNCHANGED <<now, users, sessions, sent_today, running, server_time,
                   ulist, qfreq, idx, ult, pend, hopen, fsm, log, ticks, ops, crashes,
                   loopvars, stopvars, funvars, obsvars, fdata>>

\* a variant of lines 321-322 that also moves the reflection time of the row
MarkReflectionSentAndMoved(stab, sid, t) ==
    [stab EXCEPT ![sid].sent = TRUE, ![sid].rat = t]

\* lines 321-322: reflection_sent = True is the only column written
MarkReflectionSent(stab, sid, t) == [stab EXCEPT ![sid].sent = TRUE]

\* send_reflection_reminder returns (lines 126-137), then lines 319-327:
\* the flag is set on the TherapySession object and the session committed.
\* The log calls of the send read the User object and then the
\* TherapySession object; a failure of the second makes the send return False.
RSend(ok) ==
    /\ pc = "rsend"
    /\ LET sid == iss.sid
           uo == uobj[cur]
           so == sobj[sid]
           uo1 == AfterRead(uo, users[cur])
           so1 == AfterRead(so, sessions[sid])
           success == ok /\ Readable(so, sessions[sid])
           stab == IF so1.att THEN MarkReflectionSent(sessions, sid, now)
                   ELSE sessions
           so2 == IF so1.att THEN Loaded(stab[sid])
                  ELSE [so1 EXCEPT !.row.sent = TRUE]
           uos == ExpireAll([uobj EXCEPT ![cur] = uo1])
           sos == ExpireAll([sobj EXCEPT ![sid] = so1])
       IN /\ log' = log \cup {LogRec(iss, server_time, ok)}
          /\ IF SendOutcome(ok, Readable(uo, users[cur])) = "raises"
             THEN /\ pc' = "finally"
                  /\ UNCHANGED <<ridx, uobj, sobj, sessions>>
             ELSE IF success
             THEN /\ sessions' = stab
                  /\ uobj' = [uos EXCEPT ![cur] = IF uo1.att THEN Loaded(users[cur])
                                                   ELSE uo1]
                  /\ sobj' = [sos EXCEPT ![sid] = so2]
                  /\ ridx' = ridx + 1
                  /\ pc' = "rslept"
             ELSE /\ uobj' = [uobj EXCEPT ![cur] = uo1]
                  /\ ridx' = ridx + 1
                  /\ pc' = "rslept"
                  /\ UNCHANGED <<sobj, sessions>>
    /\ UNCHANGED <<now, users, sent_today, running, server_time, ulist, qfreq,
                   idx, ult, iss, pend, cur, hopen, fsm, ticks, ops, crashes,
                   loopvars, stopvars, funvars, obsvars, fdata>>

RSendDone == \E ok \in Transport : RSend(ok)

\* lines 329-336: the loops are over and the tick logs its counts
Summary ==
    /\ pc \in {"refl", "rslept"}
    /\ ridx > Len(pend)
    /\ pc' = "end"
    /\ UNCHANGED <<now, users, sessions, sent_today, running, server_time,
                   ulist, qfreq, idx, ult, iss, uobj, pend, ridx, cur, sobj,
                   hopen, fsm, log, ticks, ops, crashes, loopvars, stopvars,
                   funvars, obsvars, fdata>>

\* the tick is over ("end"), or an exception reached line 338 ("finally"):
\* close_session (341), then run_scheduler's cleanup at "00:00" (353-354) and
\* its sleep (358)
Finally ==
    /\ pc \in {"end", "finally"}
    /\ uobj' = [u \in UID |-> NoUObj]
    /\ sobj' = [s \in SID |-> NoSObj]
    /\ sent_today' = IF StrfHM(now) = HM(0, 0)
                     THEN cleanup_old_tracking(sent_today, now)
                     ELSE sent_today
    /\ pc' = "sleep"
    /\ UNCHANGED <<now, users, sessions, running, server_time, ulist, qfreq,
                   idx, ult, iss, pend, ridx, cur, hopen, fsm, log, ticks, ops,
                   crashes, loopvars, stopvars, funvars, obsvars, fdata>>

(***************************************************************************)
(* The clock in minutes.  The next tick starts when the sleep of 60        *)
(* seconds is over, one minute later.  A run of ticks that find nothing to *)
(* do (QuietTick) is taken in one step.                                    *)
(***************************************************************************)
QuietTick(t) ==
    /\ SweepHits(users, t) = {}
    /\ \A u \in UserQuery(users) :
         LET l == UserLocalTime(t, users[u].tz)
         IN /\ ~should_send_notification(users[u], t, {})
            /\ ~(IsSunday(l) /\ StrfHM(l) \in {HM(10, 0), HM(17, 0)})
    /\ \A s \in PendingQuery(sessions, t) :
         ~(users[sessions[s].uid].present /\ users[sessions[s].uid].reg)
    /\ StrfHM(t) # HM(0, 0)

Steps == {1, 60}

Advance ==
    /\ pc = "sleep"
    /\ running
    /\ ticks < MaxTicks
    /\ \E d \in Steps :
         /\ {t \in (now + 1) .. (now + d - 1) : ~QuietTick(t)} = {}
         /\ now' = now + d
    /\ ticks' = ticks + 1
    /\ pc' = "start"
    /\ UNCHANGED <<users, sessions, sent_today, running, server_time, ulist, qfreq,
                   idx, ult, iss, uobj, pend, ridx, cur, sobj, hopen, fsm, log, ops,
                   crashes, loopvars, stopvars, funvars, obsvars, fdata>>

(***************************************************************************)
(* timezone_utils.calculate_timezone_offset on parsed times: the offset,   *)
(* or None when the user's time is refused.  round() is Python's: a half   *)
(* goes to the even neighbour.                                             *)
(***************************************************************************)
\* variants: division that drops the remainder, and no clamping
PyFloor60(diff) == diff \div 60
ClampNone(lo, hi, x) == x

\* a variant that takes a half to the next integer upward
PyRoundHalfUp60(diff) == (diff + 30) \div 60

PyRound60(diff) ==
    LET q == diff \div 60
        r == diff % 60
    IN IF r < 30 THEN q
       ELSE IF r > 30 THEN q + 1
       ELSE IF q % 2 = 0 THEN q ELSE q + 1

Clamp(lo, hi, x) == IF x < lo THEN lo ELSE IF x > hi THEN hi ELSE x

calculate_timezone_offset(uh, um, sh, sm, server_utc_offset) ==
    IF ~(0 <= uh /\ uh <= 23 /\ 0 <= um /\ um <= 59) THEN None
    ELSE LET d0 == (uh * 60 + um) - (sh * 60 + sm)
             d1 == IF d0 > 12 * 60 THEN d0 - 24 * 60
                   ELSE IF d0 < -(12 * 60) THEN d0 + 24 * 60
                   ELSE d0
         IN Clamp(-12, 14, PyRound60(d1) + server_utc_offset)

\* The text of a time as split(':') and int() see it (lines 30 and 37): two
\* integers, or a text they raise ValueError or IndexError on
TimeStr(h, m) == [ok |-> TRUE, h |-> h, m |-> m]
BadStr == [ok |-> FALSE, h |-> 0, m |-> 0]
\* data.get('server_time') of a dialogue state that holds none: None
NoServerTime == [ok |-> FALSE, h |-> None, m |-> None]
\* the data of a dialogue state after state.clear(): no item is set
NoData ==
    [server_time |-> NoServerTime, session_datetime |-> <<>>,
     reflection_datetime |-> <<>>]

\* str() of an integer, character by character
Digit(k) == <<"0", "1", "2", "3", "4", "5", "6", "7", "8", "9">>[k + 1]

RECURSIVE PyStrNat(_)
PyStrNat(k) ==
    IF k < 10 THEN <<Digit(k)>> ELSE PyStrNat(k \div 10) \o <<Digit(k % 10)>>

PyStr(n) == IF n < 0 THEN <<"-">> \o PyStrNat(-n) ELSE PyStrNat(n)

\* lines 62-65 (and format_timezone_display): f"UTC+{n}" or f"UTC{n}"
format_timezone_display(n) ==
    IF n >= 0 THEN <<"U", "T", "C", "+">> \o PyStr(n)
    ELSE <<"U", "T", "C">> \o PyStr(n)

\* what calculate_timezone_offset returns for two texts: the offset, the
\* label and the error
CalibrationError(e) == [offset |-> None, label |-> <<>>, error |-> e]

calculate_timezone_offset_of(user_time_str, server_time_str, server_utc_offset) ==
    IF ~user_time_str.ok THEN CalibrationError("format")
    ELSE IF ~(/\ 0 <= user_time_str.h /\ user_time_str.h <= 23
              /\ 0 <= user_time_str.m /\ user_time_str.m <= 59)
         THEN CalibrationError("range")
    ELSE IF ~server_time_str.ok THEN CalibrationError("format")
    ELSE LET o == calculate_timezone_offset(user_time_str.h, user_time_str.m,
                                            server_time_str.h, server_time_str.m,
                                            server_utc_offset)
         IN [offset |-> o, label |-> format_timezone_display(o), error |-> "none"]

\* trial_manager.check_trial_status: the status and the days remaining
check_trial_status(u, t) ==
    LET st == GateStatus(u, t)
    IN [status |-> st,
        days |-> CASE st = "premium" -> -1
                   [] st = "trial_active" -> (u.tend - t) \div Days(1)
                   [] OTHER -> 0]

\* a variant that marks every row whose end date has passed
expiry_writeAnyRow(u, t, commit_ok) ==
    IF u.tend # None /\ t > u.tend /\ commit_ok
    THEN [u EXCEPT !.texp = TRUE] ELSE u

\* check_trial_status, lines 96-112: the stored row after the call; the flag
\* is written when the trial is found over with the flag unset, and the
\* write is rolled back when the commit raises
expiry_write(u, t, commit_ok) ==
    IF GateStatus(u, t) = "trial_expired" /\ ~u.texp /\ commit_ok
    THEN [u EXCEPT !.texp = TRUE] ELSE u

(***************************************************************************)
(* Inbound updates.  Each runs while the scheduler coroutine awaits.  The  *)
(* activity middleware (main.py 46-53) writes last_activity through the    *)
(* session of the module database.session, which is not the scheduler's;   *)
(* the handlers use the scheduler's session (src.database.session).        *)
(***************************************************************************)
RowOf(tg) == CHOOSE u \in UID : users[u].present /\ users[u].tg = tg
HasRow(tg) == \E u \in UID : users[u].present /\ users[u].tg = tg

\* activity_tracker.update_user_activity
update_user_activity(tab, tg, t) ==
    [u \in UID |-> IF tab[u].present /\ tab[u].tg = tg
                   THEN [tab[u] EXCEPT !.last = t] ELSE tab[u]]

HandlerRuns == pc \in AwaitPcs /\ ops < MaxOps

\* main_menu.hotline_handler: an update whose handler uses no session
Activity(tg) ==
    /\ HandlerRuns
    /\ HasRow(tg)
    /\ users' = update_user_activity(users, tg, now)
    /\ ops' = ops + 1
    /\ UNCHANGED <<now, sessions, sent_today, running, tickvars, hopen, fsm, log,
                   ticks, crashes, loopvars, stopvars, funvars, obsvars, fdata>>

\* notifications.notify_command: a query, then close_session, with no commit
NotifyCommand(tg) ==
    /\ HandlerRuns
    /\ HasRow(tg)
    /\ users' = update_user_activity(users, tg, now)
    /\ uobj' = DetachAll(uobj)
    /\ sobj' = DetachAll(sobj)
    /\ ops' = ops + 1
    /\ UNCHANGED <<now, sessions, sent_today, running, pc, server_time, ulist, qfreq,
                   idx, ult, iss, pend, ridx, cur, hopen, fsm, log, ticks, crashes,
                   loopvars, stopvars, funvars, obsvars, fdata>>

\* notifications.handle_frequency_selection under require_trial_access.  The
\* wrapper refuses an unregistered user and a user without access; the lazy
\* expiry write of check_trial_status commits and closes at once.  With
\* access the handler stores the frequency and commits.  In every case the
\* session is closed after the handler's reply.
FreqChoices == {0, 2}

FrequencySelection(tg, f) ==
    /\ HandlerRuns
    /\ HasRow(tg)
    /\ LET uid == RowOf(tg)
           tab == update_user_activity(users, tg, now)
           status == GateStatus(tab[uid], now)
       IN IF ~tab[uid].reg
          THEN users' = tab /\ UNCHANGED <<uobj, sobj>>
          ELSE IF status \in {"premium", "trial_active"}
          THEN /\ users' = [tab EXCEPT ![uid].freq = f]
               /\ uobj' = ExpireAll(uobj)
               /\ sobj' = ExpireAll(sobj)
          ELSE IF status = "trial_expired" /\ ~tab[uid].texp
          THEN /\ users' = [tab EXCEPT ![uid].texp = TRUE]
               /\ uobj' = DetachAll(ExpireAll(uobj))
               /\ sobj' = DetachAll(ExpireAll(sobj))
          ELSE users' = tab /\ UNCHANGED <<uobj, sobj>>
    /\ hopen' = TRUE
    /\ ops' = ops + 1
    /\ UNCHANGED <<now, sessions, sent_today, running, pc, server_time, ulist,
                   qfreq, idx, ult, iss, pend, ridx, cur, fsm, log, ticks,
                   crashes, loopvars, stopvars, funvars, obsvars, fdata>>

\* notifications.handle_timezone_change_from_time: the offset is computed from
\* the time the user typed and the server's time; the handler stores it,
\* commits, and closes after its reply
TimeInputs == {0, 60}    \* how far ahead of the server the typed time is

TimezoneChange(tg, uh, um) ==
    /\ HandlerRuns
    /\ HasRow(tg)
    /\ LET uid == RowOf(tg)
           tab == update_user_activity(users, tg, now)
           off == calculate_timezone_offset(uh, um, StrfHM(now) \div 60,
                                            StrfHM(now) % 60, SERVER_UTC_OFFSET)
       IN IF off = None
          THEN users' = tab /\ UNCHANGED <<uobj, sobj, hopen>>
          ELSE /\ users' = [tab EXCEPT ![uid].tz = off,
                                       ![uid].label = format_timezone_display(off)]
               /\ uobj' = ExpireAll(uobj)
               /\ sobj' = ExpireAll(sobj)
               /\ hopen' = TRUE
    /\ ops' = ops + 1
    /\ UNCHANGED <<now, sessions, sent_today, running, pc, server_time, ulist, qfreq,
                   idx, ult, iss, pend, ridx, cur, fsm, log, ticks, crashes,
                   loopvars, stopvars, funvars, obsvars, fdata>>

\* close_session at the end of a handler that has committed
HandlerClose ==
    /\ pc \in AwaitPcs
    /\ hopen
    /\ hopen' = FALSE
    /\ uobj' = DetachAll(uobj)
    /\ sobj' = DetachAll(sobj)
    /\ UNCHANGED <<now, users, sessions, sent_today, running, pc, server_time,
                   ulist, qfreq, idx, ult, iss, pend, ridx, cur, fsm, log, ticks, ops,
                   crashes, loopvars, stopvars, funvars, obsvars, fdata>>

(***************************************************************************)
(* The account handlers of main.py.  Each commits and closes the session   *)
(* with no await in between.  fsm is the step of the registration dialogue *)
(* (the dispatcher's FSM state) of a chat: "none", "name", "tz", "freq",   *)
(* "referral".                                                             *)
(***************************************************************************)
LifeRuns == pc \in AwaitPcs /\ ops < MaxLifeOps

CommitClose(objs) == DetachAll(ExpireAll(objs))

\* the primary key of an inserted row: SQLite gives max(rowid) + 1
NextId(tab) ==
    IF \A u \in UID : ~tab[u].present THEN 1
    ELSE (CHOOSE m \in UID : tab[m].present /\ \A u \in UID : tab[u].present => u <= m) + 1

\* main.reset_user
Reset(tg) ==
    /\ LifeRuns
    /\ LET tab == update_user_activity(users, tg, now)
       IN IF HasRow(tg)
          THEN /\ users' = [tab EXCEPT ![RowOf(tg)] = NoUser]
               /\ uobj' = CommitClose(uobj)
               /\ sobj' = CommitClose(sobj)
          ELSE /\ users' = tab
               /\ uobj' = DetachAll(uobj)
               /\ sobj' = DetachAll(sobj)
    /\ fsm' = [fsm EXCEPT ![tg] = "none"]
    /\ ops' = ops + 1
    /\ UNCHANGED <<now, sessions, sent_today, running, pc, server_time, ulist,
                   qfreq, idx, ult, iss, pend, ridx, cur, hopen, log, ticks,
                   crashes, loopvars, stopvars, funvars, obsvars, fdata>>

\* main.cmd_start
CmdStart(tg) ==
    /\ LifeRuns
    /\ LET tab == update_user_activity(users, tg, now)
       IN IF HasRow(tg)
          THEN /\ users' = tab
               /\ uobj' = DetachAll(uobj)
               /\ sobj' = DetachAll(sobj)
               /\ fsm' = [fsm EXCEPT ![tg] = IF tab[RowOf(tg)].reg THEN "none"
                                               ELSE "name"]
          ELSE /\ NextId(tab) \in UID
               /\ users' = [tab EXCEPT ![NextId(tab)] = NewUser(tg)]
               /\ uobj' = CommitClose(uobj)
               /\ sobj' = CommitClose(sobj)
               /\ fsm' = [fsm EXCEPT ![tg] = "name"]
    /\ ops' = ops + 1
    /\ UNCHANGED <<now, sessions, sent_today, running, pc, server_time, ulist,
                   qfreq, idx, ult, iss, pend, ridx, cur, hopen, log, ticks,
                   crashes, loopvars, stopvars, funvars, obsvars, fdata>>

\* a registration handler that stores one column of the user's row
RegistrationStep(tg, from, to, row) ==
    /\ LifeRuns
    /\ fsm[tg] = from
    /\ HasRow(tg)
    /\ users' = [update_user_activity(users, tg, now) EXCEPT ![RowOf(tg)] = row]
    /\ uobj' = CommitClose(uobj)
    /\ sobj' = CommitClose(sobj)
    /\ fsm' = [fsm EXCEPT ![tg] = to]
    /\ ops' = ops + 1
    /\ UNCHANGED <<now, sessions, sent_today, running, pc, server_time, ulist,
                   qfreq, idx, ult, iss, pend, ridx, cur, hopen, log, ticks,
                   crashes, loopvars, stopvars, funvars, obsvars, fdata>>

ActiveRow(tg) == [users[RowOf(tg)] EXCEPT !.last = now]

\* main.save_name
SaveName(tg) ==
    RegistrationStep(tg, "name", "tz", [ActiveRow(tg) EXCEPT !.name = TRUE])

\* main.save_timezone_from_time
SaveTimezone(tg, uh, um) ==
    LET off == calculate_timezone_offset(uh, um, StrfHM(now) \div 60,
                                         StrfHM(now) % 60, SERVER_UTC_OFFSET)
    IN /\ off # None
       /\ RegistrationStep(tg, "tz", "freq",
                           [ActiveRow(tg) EXCEPT !.tz = off,
                                                 !.label = format_timezone_display(off)])

\* main.save_notification_frequency
SaveFrequency(tg, f) ==
    RegistrationStep(tg, "freq", "referral", [ActiveRow(tg) EXCEPT !.freq = f])

\* a variant that starts the trial without an end date
start_trial_periodNoEnd(u, t) ==
    [u EXCEPT !.tstart = t, !.premium = FALSE, !.texp = FALSE]

\* trial_manager.start_trial_period
start_trial_period(u, t) ==
    [u EXCEPT !.tstart = t, !.tend = t + Days(TRIAL_DURATION_DAYS),
              !.premium = FALSE, !.texp = FALSE]

\* main.save_referral_and_complete_registration
CompleteRegistration(tg) ==
    RegistrationStep(tg, "referral", "none",
                     start_trial_period([ActiveRow(tg) EXCEPT !.reg = TRUE], now))

\* a callback under trial_manager.require_trial_access: the row is read and
\* check_trial_status marks a trial it finds over (lines 96-112)
StatusCheck(tg) ==
    /\ HandlerRuns
    /\ HasRow(tg)
    /\ LET tab == update_user_activity(users, tg, now)
           row == tab[RowOf(tg)]
           over == row.reg /\ expiry_write(row, now, TRUE) # row
       IN /\ users' = IF over THEN [tab EXCEPT ![RowOf(tg)].texp = TRUE] ELSE tab
          /\ uobj' = IF over THEN CommitClose(uobj) ELSE DetachAll(uobj)
          /\ sobj' = IF over THEN CommitClose(sobj) ELSE DetachAll(sobj)
          /\ was_expired' = was_expired \cup (IF over THEN {tg} ELSE {})
    /\ ops' = ops + 1
    /\ UNCHANGED <<now, sessions, sent_today, running, pc, server_time, ulist,
                   qfreq, idx, ult, iss, pend, ridx, cur, hopen, fsm, log, ticks,
                   crashes, loopvars, stopvars, funvars, fdata>>

\* a variant that leaves trial_expired as it is
upgrade_to_premiumKeepsFlag(tg) ==
    /\ HandlerRuns
    /\ HasRow(tg)
    /\ users' = [users EXCEPT ![RowOf(tg)].premium = TRUE]
    /\ uobj' = CommitClose(uobj)
    /\ sobj' = CommitClose(sobj)
    /\ was_expired' = was_expired \ {tg}
    /\ ops' = ops + 1
    /\ UNCHANGED <<now, sessions, sent_today, running, pc, server_time, ulist,
                   qfreq, idx, ult, iss, pend, ridx, cur, hopen, fsm, log, ticks,
                   crashes, loopvars, stopvars, funvars, fdata>>

\* trial_manager.upgrade_to_premium
upgrade_to_premium(tg) ==
    /\ HandlerRuns
    /\ HasRow(tg)
    /\ users' = [users EXCEPT ![RowOf(tg)].premium = TRUE,
                              ![RowOf(tg)].texp = FALSE]
    /\ uobj' = CommitClose(uobj)
    /\ sobj' = CommitClose(sobj)
    /\ was_expired' = was_expired \ {tg}
    /\ ops' = ops + 1
    /\ UNCHANGED <<now, sessions, sent_today, running, pc, server_time, ulist,
                   qfreq, idx, ult, iss, pend, ridx, cur, hopen, fsm, log, ticks,
                   crashes, loopvars, stopvars, funvars, fdata>>

(***************************************************************************)
(* The process dies and is started again: the dedup map and the tick are   *)
(* lost, the store stays.  A send that was awaited may have been accepted. *)
(***************************************************************************)
SendPcs == {"psend", "msend", "wsend", "rsend"}

Crash ==
    /\ pc \in AwaitPcs
    /\ crashes < MaxCrashes
    /\ \E delivered \in BOOLEAN :
         log' = IF delivered /\ pc \in SendPcs
                THEN log \cup {LogRec(iss, server_time, TRUE)} ELSE log
    /\ crashes' = crashes + 1
    /\ sent_today' = {}
    /\ running' = FALSE
    /\ pc' = "init"
    /\ ulist' = <<>>
    /\ qfreq' = [u \in UID |-> 0]
    /\ idx' = 1
    /\ ult' = 0
    /\ iss' = NoSendRec
    /\ uobj' = [u \in UID |-> NoUObj]
    /\ pend' = <<>>
    /\ ridx' = 1
    /\ cur' = 0
    /\ sobj' = [s \in SID |-> NoSObj]
    /\ hopen' = FALSE
    /\ fsm' = [tg \in TG |-> "none"]
    /\ fdata' = [tg \in TG |-> NoData]
    /\ UNCHANGED <<now, users, sessions, server_time, ticks, ops, loopvars, stopvars,
                   funvars, obsvars>>

(***************************************************************************)
(* The tick loop of run_scheduler on a clock in seconds: a tick reads the  *)
(* server's minute when it starts, lasts as long as its sends and delays   *)
(* take, and the next one starts 60 seconds after it has ended.            *)
(***************************************************************************)
StartSeconds == {0, 30, 58, 59}
TickSeconds == {0, 1, 2, 3}

\* the minute of the loop's clock that is 00:00 of the server: the scheduler
\* was started at 23:58
MidnightMinute == 2

\* lines 350-355: the tick, then the purge when the clock reads "00:00"
LoopTick ==
    /\ lphase = "tick"
    /\ Cardinality(lmin) <= MaxLoopTicks
    /\ \E d \in TickSeconds :
         /\ lt' = lt + d
         /\ lpurge' = IF (lt + d) \div 60 = MidnightMinute
                       THEN lpurge \cup {lt + d} ELSE lpurge
    /\ lmin' = lmin \cup {lt \div 60}
    /\ lphase' = "sleep"
    /\ UNCHANGED <<now, users, sessions, sent_today, running, tickvars, hopen,
                   fsm, log, ticks, ops, crashes, stopvars, funvars, obsvars,
                   fdata>>

LoopSleep ==
    /\ lphase = "sleep"
    /\ lt' = lt + 60
    /\ lphase' = "tick"
    /\ UNCHANGED <<now, users, sessions, sent_today, running, tickvars, hopen,
                   fsm, log, ticks, ops, crashes, lmin, lpurge, stopvars, funvars,
                   obsvars, fdata>>

\* the clock of a run that never ends: after MaxTicks minutes its value is
\* held, and the ticks go on
AdvanceLive ==
    /\ pc = "sleep"
    /\ running
    /\ IF ticks < MaxTicks
       THEN now' = now + 1 /\ ticks' = ticks + 1
       ELSE UNCHANGED <<now, ticks>>
    /\ pc' = "start"
    /\ UNCHANGED <<users, sessions, sent_today, running, server_time, ulist,
                   qfreq, idx, ult, iss, uobj, pend, ridx, cur, sobj, hopen,
                   fsm, log, ops, crashes, loopvars, stopvars, funvars,
                   obsvars, fdata>>

(***************************************************************************)
(* Initial states: the process has just been started (NotificationScheduler*)
(* constructed, run_scheduler not yet entered) on a store that earlier     *)
(* runs have filled.                                                       *)
(***************************************************************************)
Sunday0 == Days(21)
StartTimes == {Sunday0 + HM(9, 0), Sunday0 + HM(11, 0), Sunday0 + HM(16, 0)}
TrialKinds == {"active", "ending", "expired", "premium"}

\* a registered user's row: the trial began at registration and, by kind,
\* runs for another week, ends at t0, ended a day before t0 and was marked,
\* or was upgraded to premium
RegisteredUser(tg, f, tz, kind, last, t0) ==
    LET tend == CASE kind = "ending" -> t0
                  [] kind = "expired" -> t0 - Days(1)
                  [] OTHER -> t0 + Days(7)
    IN [present |-> TRUE, tg |-> tg, name |-> TRUE, freq |-> f, tz |-> tz,
        label |-> format_timezone_display(tz), reg |-> TRUE,
        premium |-> (kind = "premium"),
        tstart |-> tend - Days(TRIAL_DURATION_DAYS), tend |-> tend,
        texp |-> (kind = "expired"), last |-> last]

\* a session booked for the time sat, handlers/session.py 235 and 291-296
BookedSession(uid, sat) ==
    [present |-> TRUE, uid |-> uid, sat |-> sat,
     rat |-> sat + Hours(REFLECTION_DELAY_HOURS), sent |-> FALSE]

\* no function call is recorded
NoCall == [f |-> "none"]

Constructed ==
    /\ sent_today = {}
    /\ running = FALSE
    /\ pc = "init"
    /\ server_time = 0
    /\ ulist = <<>>
    /\ qfreq = [u \in UID |-> 0]
    /\ idx = 1
    /\ ult = 0
    /\ iss = NoSendRec
    /\ uobj = [u \in UID |-> NoUObj]
    /\ pend = <<>>
    /\ ridx = 1
    /\ cur = 0
    /\ sobj = [s \in SID |-> NoSObj]
    /\ hopen = FALSE
    /\ fsm = [tg \in TG |-> "none"]
    /\ log = {}
    /\ ticks = 0
    /\ ops = 0
    /\ crashes = 0
    /\ stopped = FALSE
    /\ cut = "none"
    /\ fin = NoCall
    /\ fout = NoCall
    /\ was_expired = ExpiredChats(users)
    /\ fdata = [tg \in TG |-> NoData]

LoopIdle == lt = 0 /\ lphase = "off" /\ lmin = {} /\ lpurge = {}

\* The stores the runs start from: the second user's frequency, trial and
\* last activity, and the minute her booked session's prompt falls due.
Scenarios ==
    {[t0 |-> t, f |-> f, kind |-> "active", idle |-> TRUE, due |-> d] :
        t \in StartTimes, f \in {0, 2}, d \in {0, 1}}
    \cup {[t0 |-> Sunday0 + HM(11, 0), f |-> 2, kind |-> k, idle |-> TRUE, due |-> d] :
        k \in TrialKinds, d \in {0, 1}}
    \cup {[t0 |-> Sunday0 + HM(11, 0), f |-> f, kind |-> "active", idle |-> FALSE, due |-> d] :
        f \in {0, 2}, d \in {0, 1}}
    \cup {[t0 |-> Sunday0 + HM(11, 0), f |-> 0, kind |-> "expired", idle |-> FALSE, due |-> d] :
        d \in {0, 1}}

Init ==
    /\ \E sc \in Scenarios :
         /\ now = sc.t0
         /\ users = [u \in UID |->
                       CASE u = 1 -> RegisteredUser(101, 2, 4, "active", None, sc.t0)
                         [] u = 2 -> RegisteredUser(102, sc.f, 4, sc.kind,
                                                    IF sc.idle THEN None ELSE sc.t0 - 5,
                                                    sc.t0)
                         [] OTHER -> NoUser]
         /\ sessions = [s \in SID |->
                          IF s = 1
                          THEN BookedSession(2, sc.t0 + sc.due - Hours(REFLECTION_DELAY_HOURS))
                          ELSE NoSession]
    /\ Constructed
    /\ LoopIdle

SchedulerStep ==
    \/ RunScheduler
    \/ TickStart
    \/ UserStep
    \/ PSendDone
    \/ WeeklyMotivation
    \/ MSendDone
    \/ WeeklyReflection
    \/ WSendDone
    \/ Scan
    \/ ReflStep
    \/ RSendDone
    \/ Summary
    \/ Finally

\* the chats whose updates arrive during the run
Callers == {102}

Next ==
    \/ SchedulerStep
    \/ Advance
    \/ \E tg \in Callers : Activity(tg)
    \/ \E tg \in Callers : NotifyCommand(tg)
    \/ \E tg \in Callers, f \in FreqChoices : FrequencySelection(tg, f)
    \/ \E tg \in Callers, d \in TimeInputs :
         TimezoneChange(tg, StrfHM(now + d) \div 60, StrfHM(now + d) % 60)
    \/ HandlerClose

Spec == Init /\ [][Next]_vars

(***************************************************************************)
(* The scheduler with restarts of the process: ticks, the /notify command  *)
(* of a user, and the process dying at an await and being started again.   *)
(***************************************************************************)
RestartNext ==
    \/ SchedulerStep
    \/ Advance
    \/ Crash
    \/ \E tg \in Callers : NotifyCommand(tg)

RestartSpec == Init /\ [][RestartNext]_vars

(***************************************************************************)
(* The accounts: a user with a booked session, /reset and registration     *)
(***************************************************************************)
LifeStartTimes == {Sunday0 + HM(10, 0), Sunday0 + HM(17, 0)}

LifeInit ==
    /\ now \in LifeStartTimes
    /\ users = [u \in UID |->
                  IF u = 1 THEN RegisteredUser(101, 2, 3, "active", None, now)
                  ELSE NoUser]
    /\ \E d \in {0, 1} :
         sessions = [s \in SID |->
                       IF s = 1
                       THEN BookedSession(1, now + d - Hours(REFLECTION_DELAY_HOURS))
                       ELSE NoSession]
    /\ Constructed
    /\ LoopIdle

\* the chat whose account updates arrive during the run
LifeCallers == {101}

LifeNext ==
    \/ SchedulerStep
    \/ AdvanceLive
    \/ \E tg \in LifeCallers : Reset(tg)
    \/ \E tg \in LifeCallers : CmdStart(tg)
    \/ \E tg \in LifeCallers : SaveName(tg)
    \/ \E tg \in LifeCallers, d \in TimeInputs :
         SaveTimezone(tg, StrfHM(now + d) \div 60, StrfHM(now + d) % 60)
    \/ \E tg \in LifeCallers, f \in FreqChoices : SaveFrequency(tg, f)
    \/ \E tg \in LifeCallers : CompleteRegistration(tg)

\* the scheduler task is always given the processor again, and the transport
\* does not refuse a prompt for ever
LiveSpec ==
    /\ LifeInit
    /\ [][LifeNext]_vars
    /\ WF_vars(SchedulerStep \/ AdvanceLive)
    /\ SF_vars(RSend(TRUE))

(***************************************************************************)
(* Two chats and one booked session: the chat that booked may /reset, and  *)
(* the other chat registers.  The session rows stay as they are.           *)
(***************************************************************************)
\* the chat that registers after the booker's /reset
Newcomers == {102}

ReuseNext ==
    \/ SchedulerStep
    \/ Advance
    \/ \E tg \in LifeCallers : Reset(tg)
    \/ \E tg \in Newcomers : CmdStart(tg)
    \/ \E tg \in Newcomers : SaveName(tg)
    \/ \E tg \in Newcomers, d \in TimeInputs :
         SaveTimezone(tg, StrfHM(now + d) \div 60, StrfHM(now + d) % 60)
    \/ \E tg \in Newcomers, f \in FreqChoices : SaveFrequency(tg, f)
    \/ \E tg \in Newcomers : CompleteRegistration(tg)

ReuseSpec == LifeInit /\ [][ReuseNext]_vars

(***************************************************************************)
(* The tick loop alone                                                     *)
(***************************************************************************)
LoopInit ==
    /\ now = Sunday0
    /\ users = [u \in UID |-> NoUser]
    /\ sessions = [s \in SID |-> NoSession]
    /\ Constructed
    /\ lt \in StartSeconds
    /\ lphase = "tick"
    /\ lmin = {}
    /\ lpurge = {}

LoopNext == LoopTick \/ LoopSleep

LoopSpec == LoopInit /\ [][LoopNext]_vars

(***************************************************************************)
(* The trial of an account: a user with a booked session whose trial ends  *)
(* at the first minute or has ended, the sweeps of the ticks, status       *)
(* checks, /reset, registration and the upgrade.                           *)
(***************************************************************************)
\* the clock passes into the next minute while a tick is suspended at a send
\* or a delay; the tick keeps the server_time it read at its start
ClockTick ==
    /\ pc \in AwaitPcs \ {"sleep"}
    /\ now = server_time
    /\ now' = now + 1
    /\ UNCHANGED <<users, sessions, sent_today, running, tickvars, hopen, fsm,
                   log, ticks, ops, crashes, loopvars, stopvars, funvars,
                   obsvars, fdata>>

AccountInit ==
    /\ now \in LifeStartTimes
    /\ \E k \in {"ending", "expired"} :
         users = [u \in UID |->
                    IF u = 1 THEN RegisteredUser(101, 2, 3, k, None, now)
                    ELSE NoUser]
    /\ sessions = [s \in SID |->
                     IF s = 1
                     THEN BookedSession(1, now - Hours(REFLECTION_DELAY_HOURS))
                     ELSE NoSession]
    /\ Constructed
    /\ LoopIdle

AccountNext ==
    \/ SchedulerStep
    \/ Advance
    \/ \E tg \in LifeCallers : StatusCheck(tg)
    \/ \E tg \in LifeCallers : upgrade_to_premium(tg)
    \/ \E tg \in LifeCallers : Reset(tg)
    \/ \E tg \in LifeCallers : CmdStart(tg)
    \/ \E tg \in LifeCallers : SaveName(tg)
    \/ \E tg \in LifeCallers, d \in TimeInputs :
         SaveTimezone(tg, StrfHM(now + d) \div 60, StrfHM(now + d) % 60)
    \/ \E tg \in LifeCallers, f \in FreqChoices : SaveFrequency(tg, f)
    \/ \E tg \in LifeCallers : CompleteRegistration(tg)

AccountSpec == AccountInit /\ [][AccountNext]_vars

\* the writers of trial_expired with the clock: the sweeps of the ticks, the
\* status checks of the handlers and the upgrade, while minutes pass
TrialNext ==
    \/ SchedulerStep
    \/ Advance
    \/ ClockTick
    \/ \E tg \in LifeCallers : StatusCheck(tg)
    \/ \E tg \in LifeCallers : upgrade_to_premium(tg)

TrialSpec == AccountInit /\ [][TrialNext]_vars

(***************************************************************************)
(* The ticks and the users' activity: two users at a slot or a weekly hour *)
(* whose last activity lies around the threshold, and updates of theirs    *)
(* that arrive while the ticks run.                                        *)
(***************************************************************************)
LastActivities(t) ==
    {None, t - ACTIVE_INTERACTION_THRESHOLD + 1, t - ACTIVE_INTERACTION_THRESHOLD,
     t - ACTIVE_INTERACTION_THRESHOLD - 1}

ActivityInit ==
    /\ now \in StartTimes
    /\ \E l1 \in LastActivities(now), l2 \in LastActivities(now) :
         users = [u \in UID |->
                    CASE u = 1 -> RegisteredUser(101, 2, 4, "active", l1, now)
                      [] u = 2 -> RegisteredUser(102, 2, 4, "active", l2, now)
                      [] OTHER -> NoUser]
    /\ sessions = [s \in SID |->
                     IF s = 1
                     THEN BookedSession(2, now - Hours(REFLECTION_DELAY_HOURS))
                     ELSE NoSession]
    /\ Constructed
    /\ LoopIdle

ActivityNext ==
    \/ SchedulerStep
    \/ Advance
    \/ \E tg \in TG : Activity(tg)

ActivitySpec == ActivityInit /\ [][ActivityNext]_vars

(***************************************************************************)
(* The ticks over a store that may refuse the sweep's commit.  The second  *)
(* user's trial ends at the first minute, one minute before a slot or a    *)
(* weekly hour of hers.                                                    *)
(***************************************************************************)
StoreStartTimes ==
    {Sunday0 + HM(8, 59), Sunday0 + HM(10, 59), Sunday0 + HM(15, 59)}

StoreInit ==
    /\ now \in StoreStartTimes
    /\ users = [u \in UID |->
                  CASE u = 1 -> RegisteredUser(101, 2, 4, "active", None, now)
                    [] u = 2 -> RegisteredUser(102, 2, 4, "ending", None, now)
                    [] OTHER -> NoUser]
    /\ \E d \in {0, 1} :
         sessions = [s \in SID |->
                       IF s = 1
                       THEN BookedSession(2, now + d - Hours(REFLECTION_DELAY_HOURS))
                       ELSE NoSession]
    /\ Constructed
    /\ LoopIdle

StoreNext ==
    \/ SchedulerStep
    \/ TickStartSweepFails
    \/ Advance

StoreSpec == StoreInit /\ [][StoreNext]_vars

(***************************************************************************)
(* The ticks over a store that may fail anywhere: in the sweep's commit,   *)
(* in the user query and in the commit that stores reflection_sent.  The   *)
(* scheduler task is always resumed, and the clock goes on.                *)
(***************************************************************************)
\* a variant in which the exception of a commit leaves run_scheduler
TickRaisesCommitUncaught(where) == IF where = "commit" THEN "done" ELSE "finally"

\* an exception raised inside the try block of check_and_send_notifications
\* is caught by the except clause of line 338
TickRaises(where) == "finally"

\* lines 225-245 when the user query raises: the sweep has run, and the tick
\* has no users
TickStartQueryFails ==
    /\ pc = "start"
    /\ LET tab == check_and_update_expired_trials(users, now)
       IN /\ users' = tab
          /\ was_expired' = was_expired \cup ExpiredChats(tab)
    /\ server_time' = now
    /\ ulist' = <<>>
    /\ uobj' = [u \in UID |-> NoUObj]
    /\ sobj' = [s \in SID |-> NoSObj]
    /\ idx' = 1
    /\ ult' = 0
    /\ iss' = NoSendRec
    /\ pend' = <<>>
    /\ ridx' = 1
    /\ cur' = 0
    /\ pc' = TickRaises("query")
    /\ UNCHANGED <<now, sessions, sent_today, running, qfreq, hopen, fsm, log,
                   ticks, ops, crashes, loopvars, stopvars, funvars, fdata>>

\* lines 319-322 when the transport has accepted the prompt and the commit
\* raises: the flag is not stored
RSendCommitFails ==
    /\ pc = "rsend"
    /\ Readable(uobj[cur], users[cur])
    /\ Readable(sobj[iss.sid], sessions[iss.sid])
    /\ log' = log \cup {LogRec(iss, server_time, TRUE)}
    /\ pc' = TickRaises("commit")
    /\ UNCHANGED <<now, users, sessions, sent_today, running, server_time,
                   ulist, qfreq, idx, ult, iss, uobj, pend, ridx, cur, sobj,
                   hopen, fsm, ticks, ops, crashes, loopvars, stopvars,
                   funvars, obsvars, fdata>>

FaultNext ==
    \/ SchedulerStep
    \/ TickStartSweepFails
    \/ TickStartQueryFails
    \/ RSendCommitFails
    \/ AdvanceLive

\* the scheduler task is given the processor again after every await, and
\* the sleep of 60 seconds ends
FaultSpec == StoreInit /\ [][FaultNext]_vars /\ WF_vars(FaultNext)

(***************************************************************************)
(* A scheduler that has been running for some days and is asleep between   *)
(* two ticks: it holds the keys of the reminders of the last days, which   *)
(* the purges of the earlier midnights have left.  The next minute is a    *)
(* slot or a weekly hour of the users, or the server's midnight; the       *)
(* second user's trial ends at the first minute.  Users' updates arrive    *)
(* while the ticks run.                                                    *)
(***************************************************************************)
OrderStartTimes == StoreStartTimes \cup {Sunday0 + HM(23, 59)}

\* the keys of the 17:00 reminders of user 101 of the two days before t
HeldKeys(t) ==
    {PeriodicKey(101, StrfDate(t) - d, HM(17, 0)) : d \in 1 .. CLEANUP_DAYS}

OrderInit ==
    /\ now \in OrderStartTimes
    /\ users = [u \in UID |->
                  CASE u = 1 -> RegisteredUser(101, 2, 4, "active", None, now)
                    [] u = 2 -> RegisteredUser(102, 2, 4, "ending", None, now)
                    [] OTHER -> NoUser]
    /\ \E d \in {0, 1} :
         sessions = [s \in SID |->
                       IF s = 1
                       THEN BookedSession(2, now + d - Hours(REFLECTION_DELAY_HOURS))
                       ELSE NoSession]
    /\ sent_today = HeldKeys(now)
    /\ running = TRUE
    /\ pc = "sleep"
    /\ server_time = now
    /\ ulist = <<>>
    /\ qfreq = [u \in UID |-> 0]
    /\ idx = 1
    /\ ult = 0
    /\ iss = NoSendRec
    /\ uobj = [u \in UID |-> NoUObj]
    /\ pend = <<>>
    /\ ridx = 1
    /\ cur = 0
    /\ sobj = [s \in SID |-> NoSObj]
    /\ hopen = FALSE
    /\ fsm = [tg \in TG |-> "none"]
    /\ log = {}
    /\ ticks = 0
    /\ ops = 0
    /\ crashes = 0
    /\ stopped = FALSE
    /\ cut = "none"
    /\ fin = NoCall
    /\ fout = NoCall
    /\ was_expired = ExpiredChats(users)
    /\ fdata = [tg \in TG |-> NoData]
    /\ LoopIdle

OrderNext ==
    \/ TickStart
    \/ UserStep
    \/ PSendDone
    \/ WeeklyMotivation
    \/ MSendDone
    \/ WeeklyReflection
    \/ WSendDone
    \/ Scan
    \/ ReflStep
    \/ RSendDone
    \/ Summary
    \/ Finally
    \/ Advance
    \/ \E tg \in Callers : Activity(tg)
    \/ \E tg \in Callers : NotifyCommand(tg)
    \/ \E tg \in Callers, f \in FreqChoices : FrequencySelection(tg, f)
    \/ \E tg \in Callers, d \in TimeInputs :
         TimezoneChange(tg, StrfHM(now + d) \div 60, StrfHM(now + d) % 60)
    \/ HandlerClose

OrderSpec == OrderInit /\ [][OrderNext]_vars

(***************************************************************************)
(* Stopping the scheduler.  stop() clears the flag the loop of             *)
(* run_scheduler tests before each tick; it runs in another coroutine, so  *)
(* only while the scheduler task has not begun or is suspended at an       *)
(* await.  main()'s shutdown path calls stop() and then cancels the task:  *)
(* CancelledError is raised at the await the task is suspended at, is not  *)
(* an Exception, so no handler of the tick or of the loop catches it, and  *)
(* only the finally clause of the tick runs.  A request that the cancelled *)
(* send had already handed to the transport may have been accepted.        *)
(***************************************************************************)
Stop ==
    /\ ~stopped
    /\ pc \in AwaitPcs \cup {"init"}
    /\ running' = FALSE
    /\ stopped' = TRUE
    /\ UNCHANGED <<now, users, sessions, sent_today, tickvars, hopen, fsm, log,
                   ticks, ops, crashes, loopvars, cut, funvars, obsvars, fdata>>

\* run_scheduler, line 348: the loop ends when the flag is found cleared
LoopExit ==
    /\ pc = "sleep"
    /\ ~running
    /\ pc' = "done"
    /\ UNCHANGED <<now, users, sessions, sent_today, running, server_time, ulist,
                   qfreq, idx, ult, iss, uobj, pend, ridx, cur, sobj, hopen, fsm,
                   log, ticks, ops, crashes, loopvars, stopvars, funvars,
                   obsvars, fdata>>

\* main(), lines 653-660: scheduler.stop(); scheduler_task.cancel()
Shutdown ==
    /\ ~stopped
    /\ pc \in AwaitPcs \cup {"init"}
    /\ running' = FALSE
    /\ stopped' = TRUE
    /\ cut' = pc
    /\ \E delivered \in BOOLEAN :
         log' = IF delivered /\ pc \in SendPcs
                THEN log \cup {LogRec(iss, server_time, TRUE)} ELSE log
    /\ uobj' = [u \in UID |-> NoUObj]
    /\ sobj' = [s \in SID |-> NoSObj]
    /\ pc' = "cancelled"
    /\ UNCHANGED <<now, users, sessions, sent_today, server_time, ulist, qfreq,
                   idx, ult, iss, pend, ridx, cur, hopen, fsm, ticks, ops,
                   crashes, loopvars, funvars, obsvars, fdata>>

StopNext ==
    \/ SchedulerStep
    \/ Advance
    \/ Stop
    \/ LoopExit
    \/ Shutdown

StopSpec == Init /\ [][StopNext]_vars

(***************************************************************************)
(* The functions on their own: one call with arguments drawn from the     *)
(* sets below, and what it returned.                                       *)
(***************************************************************************)
UserTexts ==
    {TimeStr(h, m) : h \in {0, 1, 11, 12, 13, 16, 23, 24}, m \in {0, 29, 30, 31, 54, 60}}
        \cup {BadStr}
ServerTexts ==
    {TimeStr(h, m) : h \in {0, 1, 12, 13, 23, 25}, m \in {0, 30, 54, 99}}
        \cup {BadStr}
ServerOffsets == {-12, 0, SERVER_UTC_OFFSET, 14}

Calibrate ==
    /\ fin = NoCall
    /\ \E us \in UserTexts, ss \in ServerTexts, off \in ServerOffsets :
         /\ fin' = [f |-> "calculate_timezone_offset", user |-> us,
                    server |-> ss, off |-> off]
         /\ fout' = calculate_timezone_offset_of(us, ss, off)
    /\ UNCHANGED <<now, users, sessions, sent_today, running, tickvars, hopen,
                   fsm, log, ticks, ops, crashes, loopvars, stopvars,
                   obsvars, fdata>>

TrialEnds == {None, Sunday0 - 1, Sunday0, Sunday0 + 1, Sunday0 + Days(1) - 1,
              Sunday0 + Days(1), Sunday0 + Days(3) + 7}

CheckStatus ==
    /\ fin = NoCall
    /\ \E p \in BOOLEAN, ts \in {None, Sunday0 - Days(TRIAL_DURATION_DAYS)},
          te \in TrialEnds, x \in BOOLEAN, commit_ok \in BOOLEAN :
         LET u == [NewUser(101) EXCEPT !.premium = p, !.tstart = ts,
                                       !.tend = te, !.texp = x]
             r == check_trial_status(u, now)
         IN /\ fin' = [f |-> "check_trial_status", u |-> u, now |-> now,
                       commit_ok |-> commit_ok]
            /\ fout' = [status |-> r.status, days |-> r.days,
                        row |-> expiry_write(u, now, commit_ok)]
    /\ UNCHANGED <<now, users, sessions, sent_today, running, tickvars, hopen,
                   fsm, log, ticks, ops, crashes, loopvars, stopvars,
                   obsvars, fdata>>

\* the dedup entries a map may hold: for one chat, of each kind, dated three
\* days, two days, one day and no day before the server's date
TrackedKeys(t) ==
    UNION {{PeriodicKey(101, StrfDate(t) - d, HM(12, 0)),
            MotivationKey(101, StrfDate(t) - d),
            WeeklyReflectionKey(101, StrfDate(t) - d)} :
           d \in {0, 1, CLEANUP_DAYS, CLEANUP_DAYS + 1}}

Cleanup ==
    /\ fin = NoCall
    /\ \E sent \in SUBSET TrackedKeys(now) :
         /\ fin' = [f |-> "cleanup_old_tracking", sent |-> sent, now |-> now]
         /\ fout' = [sent |-> cleanup_old_tracking(sent, now)]
    /\ UNCHANGED <<now, users, sessions, sent_today, running, tickvars, hopen,
                   fsm, log, ticks, ops, crashes, loopvars, stopvars,
                   obsvars, fdata>>

FunInit ==
    /\ now = Sunday0
    /\ users = [u \in UID |-> NoUser]
    /\ sessions = [s \in SID |-> NoSession]
    /\ Constructed
    /\ LoopIdle

FunNext == Calibrate \/ CheckStatus \/ Cleanup

FunSpec == FunInit /\ [][FunNext]_vars

(***************************************************************************)
(* The settings dialogues: the timezone and frequency steps of the         *)
(* registration (main.py) and the /notify dialogue (handlers/              *)
(* notifications.py), with the texts and callback data a chat can send.    *)
(* fsm holds the dialogue state of each chat and fdata the server_time the *)
(* state's data holds.  A text is what the filter's regular expression     *)
(* and int() see of it; a callback's data is the sequence of its           *)
(* "_"-separated parts.  The scheduler has not been started.               *)
(***************************************************************************)
W(x) == <<"w", x>>
N(n) == <<"n", n>>

\* the data of the buttons the two frequency keyboards carry
RegFreqButtons == {<<W("reg"), W("freq"), N(f)>> : f \in {1, 2, 4, 6, 0}}
NotifyButtons ==
    {<<W("freq"), N(f)>> : f \in {1, 2, 4, 6, 0}}
        \cup {<<W("change"), W("timezone")>>, <<W("back"), W("to"), W("main")>>}

\* the data a chat may send: that of the buttons, or one of its own making
CallbackData ==
    RegFreqButtons \cup NotifyButtons
        \cup {<<W("reg"), W("freq"), N(3)>>, <<W("freq"), N(24)>>}

\* the texts a chat may send: some that match ^\d{1,2}:\d{2}$ and one that
\* does not
DialogueTexts ==
    {TimeStr(h, m) : h \in {0, 11, 16, 23, 24, 99}, m \in {0, 30, 54, 60}}
        \cup {BadStr}

\* F.text.regexp(r"^\d{1,2}:\d{2}$")
MatchesTime(text) == text.ok /\ text.h \in 0 .. 99 /\ text.m \in 0 .. 99

\* a variant of the registration filter that lets any frequency through
RegFrequencyFilterAnyNumber(data) ==
    Len(data) = 3 /\ data[1] = W("reg") /\ data[2] = W("freq")

\* F.data.in_([...]) of main.py line 401 and of notifications.py line 85
RegFrequencyFilter(data) == data \in RegFreqButtons
NotifyFilter(data) == data \in NotifyButtons

\* datetime.now().strftime("%H:%M")
ServerTimeStr(t) == TimeStr(StrfHM(t) \div 60, StrfHM(t) % 60)

\* the dialogue state after a timezone handler: it returns at once when the
\* calibration gave an error (main.py 360-366, notifications.py 181-187)
StateAfterTime(res, here, next) == IF res.error # "none" THEN here ELSE next

\* variant: a handler that stores what the calibration returned, error or not
RowAfterTimeAlways(row, res) ==
    [row EXCEPT !.tz = IF res.offset = None THEN 0 ELSE res.offset,
                !.label = res.label]

\* the row after a timezone handler (main.py 375-378, notifications.py
\* 199-202)
RowAfterTime(row, res) ==
    IF res.error # "none" THEN row
    ELSE [row EXCEPT !.tz = res.offset, !.label = res.label]

DialogueRuns == ops < MaxLifeOps

\* what every dialogue handler leaves alone: the scheduler, the sessions
DialogueFrame ==
    /\ ops' = ops + 1
    /\ UNCHANGED <<now, sessions, sent_today, running, tickvars, hopen, log, ticks,
                   crashes, loopvars, stopvars, obsvars>>

\* main.save_age (lines 306-343): the age is stored, the server's time is
\* put into the state's data and the time is asked for
save_age(tg) ==
    /\ DialogueRuns
    /\ fsm[tg] = "age"
    /\ HasRow(tg)
    /\ users' = update_user_activity(users, tg, now)
    /\ fdata' = [fdata EXCEPT ![tg].server_time = ServerTimeStr(now)]
    /\ fsm' = [fsm EXCEPT ![tg] = "tz"]
    /\ fin' = [f |-> "save_age", tg |-> tg]
    /\ fout' = NoCall
    /\ DialogueFrame

\* a timezone handler: calculate_timezone_offset of the text and of the
\* server_time of the state's data; without that item the call raises and
\* the handler ends there
TimeHandler(name, tg, text, state, next) ==
    /\ DialogueRuns
    /\ fsm[tg] = state
    /\ MatchesTime(text)
    /\ HasRow(tg)
    /\ LET tab == update_user_activity(users, tg, now)
           uid == RowOf(tg)
       IN IF fdata[tg].server_time = NoServerTime
          THEN /\ users' = tab
               /\ fout' = [offset |-> None, label |-> <<>>, error |-> "raised"]
               /\ fsm' = fsm
          ELSE LET res == calculate_timezone_offset_of(text, fdata[tg].server_time,
                                                       SERVER_UTC_OFFSET)
               IN /\ users' = [tab EXCEPT ![uid] = RowAfterTime(tab[uid], res)]
                  /\ fout' = res
                  /\ fsm' = [fsm EXCEPT ![tg] = StateAfterTime(res, state, next)]
    /\ fin' = [f |-> name, tg |-> tg, text |-> text,
               server |-> fdata[tg].server_time]
    /\ fdata' = fdata
    /\ DialogueFrame

\* main.save_timezone_from_time (lines 345-399)
save_timezone_from_time(tg, text) ==
    /\ TimeHandler("save_timezone_from_time", tg, text, "tz", "freq")

\* notifications.handle_timezone_change_from_time (lines 165-219): the state
\* is left as it is after the offset has been stored
handle_timezone_change_from_time(tg, text) ==
    /\ TimeHandler("handle_timezone_change_from_time", tg, text,
                   "tz_change", "tz_change")

\* main.save_notification_frequency (lines 401-440)
save_notification_frequency(tg, data) ==
    /\ DialogueRuns
    /\ fsm[tg] = "freq"
    /\ RegFrequencyFilter(data)
    /\ HasRow(tg)
    /\ users' = [update_user_activity(users, tg, now)
                    EXCEPT ![RowOf(tg)].freq = data[3][2]]
    /\ fsm' = [fsm EXCEPT ![tg] = "therapist"]
    /\ fin' = [f |-> "save_notification_frequency", tg |-> tg]
    /\ fout' = NoCall
    /\ fdata' = fdata
    /\ DialogueFrame

\* notifications.notify_command (lines 26-83)
notify_command(tg) ==
    /\ DialogueRuns
    /\ HasRow(tg)
    /\ users' = update_user_activity(users, tg, now)
    /\ LET row == users[RowOf(tg)]
       IN IF ~row.reg \/ ~row.name
          THEN /\ fsm' = [fsm EXCEPT ![tg] = "none"]
               /\ fdata' = [fdata EXCEPT ![tg] = NoData]
          ELSE /\ fsm' = [fsm EXCEPT ![tg] = "notify"]
               /\ fdata' = fdata
    /\ fin' = [f |-> "notify_command", tg |-> tg]
    /\ fout' = NoCall
    /\ DialogueFrame

\* notifications.handle_frequency_selection (lines 85-163) under
\* require_trial_access: without access the wrapper answers and the handler
\* is not run; a trial found over is marked by check_trial_status
handle_frequency_selection(tg, data) ==
    /\ DialogueRuns
    /\ fsm[tg] = "notify"
    /\ NotifyFilter(data)
    /\ HasRow(tg)
    /\ LET tab == update_user_activity(users, tg, now)
           uid == RowOf(tg)
           status == GateStatus(tab[uid], now)
       IN IF ~tab[uid].reg \/ status \notin {"premium", "trial_active"}
          THEN /\ users' = [tab EXCEPT ![uid] = expiry_write(tab[uid], now, TRUE)]
               /\ UNCHANGED <<fsm, fdata>>
          ELSE IF data = <<W("back"), W("to"), W("main")>>
          THEN /\ users' = tab
               /\ fsm' = [fsm EXCEPT ![tg] = "none"]
               /\ fdata' = [fdata EXCEPT ![tg] = NoData]
          ELSE IF data = <<W("change"), W("timezone")>>
          THEN /\ users' = tab
               /\ fsm' = [fsm EXCEPT ![tg] = "tz_change"]
               /\ fdata' = [fdata EXCEPT ![tg].server_time = ServerTimeStr(now)]
          ELSE /\ users' = [tab EXCEPT ![uid].freq = data[2][2]]
               /\ UNCHANGED <<fsm, fdata>>
    /\ fin' = [f |-> "handle_frequency_selection", tg |-> tg]
    /\ fout' = NoCall
    /\ DialogueFrame

\* the minutes at which the dialogues are held
DialogueTimes == {Sunday0 + HM(13, 54), Sunday0 + HM(23, 30)}

\* chat 101 is registered; chat 102 has been asked for the age
DialogueInit ==
    /\ now \in DialogueTimes
    /\ users = [u \in UID |->
                  CASE u = 1 -> RegisteredUser(101, 2, 3, "active", None, now)
                    [] u = 2 -> [NewUser(102) EXCEPT !.name = TRUE]
                    [] OTHER -> NoUser]
    /\ sessions = [s \in SID |-> NoSession]
    /\ sent_today = {}
    /\ running = FALSE
    /\ pc = "init"
    /\ server_time = 0
    /\ ulist = <<>>
    /\ qfreq = [u \in UID |-> 0]
    /\ idx = 1
    /\ ult = 0
    /\ iss = NoSendRec
    /\ uobj = [u \in UID |-> NoUObj]
    /\ pend = <<>>
    /\ ridx = 1
    /\ cur = 0
    /\ sobj = [s \in SID |-> NoSObj]
    /\ hopen = FALSE
    /\ fsm = [tg \in TG |-> IF tg = 102 THEN "age" ELSE "none"]
    /\ fdata = [tg \in TG |-> NoData]
    /\ log = {}
    /\ ticks = 0
    /\ ops = 0
    /\ crashes = 0
    /\ stopped = FALSE
    /\ cut = "none"
    /\ fin = NoCall
    /\ fout = NoCall
    /\ was_expired = ExpiredChats(users)
    /\ LoopIdle

DialogueNext ==
    \/ \E tg \in TG : save_age(tg)
    \/ \E tg \in TG, text \in DialogueTexts : save_timezone_from_time(tg, text)
    \/ \E tg \in TG, data \in CallbackData : save_notification_frequency(tg, data)
    \/ \E tg \in TG : notify_command(tg)
    \/ \E tg \in TG, data \in CallbackData : handle_frequency_selection(tg, data)
    \/ \E tg \in TG, text \in DialogueTexts :
         handle_timezone_change_from_time(tg, text)

DialogueSpec == DialogueInit /\ [][DialogueNext]_vars

(***************************************************************************)
(* Booking a therapy session (handlers/session.py): /session, the text     *)
(* with the date and time, and the confirmation that inserts the row.  The *)
(* two datetimes travel through the dialogue state's data as the texts of  *)
(* isoformat().  The scheduler runs meanwhile.                             *)
(***************************************************************************)
\* datetime.isoformat() and datetime.fromisoformat(), the text being kept as
\* its date, hour and minute
isoformat(t) == <<StrfDate(t), StrfHM(t) \div 60, StrfHM(t) % 60>>
fromisoformat(str) == Days(str[1]) + HM(str[2], str[3])

\* What parse_datetime_input finds in a text: a date with a time ("date";
\* the date is None when the calendar has no such day), "завтра" or
\* "сегодня" with a time, or none of its patterns ("other")
DateText(kind, date, h, m) == [kind |-> kind, date |-> date, h |-> h, m |-> m]

ParseError == [dt |-> None, error |-> TRUE]

\* parse_datetime_input (lines 47-128); datetime(...) and replace(...) raise
\* ValueError for an hour above 23 or a minute above 59; a time of the
\* current minute is behind datetime.now(), which has seconds
parse_datetime_input(text, t) ==
    LET valid == text.h \in 0 .. 23 /\ text.m \in 0 .. 59
        day == CASE text.kind = "date" -> text.date
                 [] text.kind = "tomorrow" -> StrfDate(t) + 1
                 [] OTHER -> StrfDate(t)
        dt == Days(day) + HM(text.h, text.m)
    IN IF text.kind = "other" \/ ~valid \/ day = None THEN ParseError
       ELSE IF text.kind # "tomorrow" /\ dt <= t THEN ParseError
       ELSE [dt |-> dt, error |-> FALSE]

\* a variant that takes the reflection time an hour short
ReflectionTimeShort(dt) == dt + Hours(REFLECTION_DELAY_HOURS - 1)

\* line 235: session_datetime + timedelta(hours=5)
ReflectionTime(dt) == dt + Hours(REFLECTION_DELAY_HOURS)

\* the primary key of an inserted therapy_sessions row
NextSessionId(stab) ==
    IF \A k \in SID : ~stab[k].present THEN 1
    ELSE (CHOOSE m \in SID :
            stab[m].present /\ \A k \in SID : stab[k].present => k <= m) + 1

\* trial_manager.require_trial_access: the wrapper lets the handler run only
\* for a registered user with access
HasAccess(row, t) == row.reg /\ GateStatus(row, t) \in {"premium", "trial_active"}

BookingFrame ==
    /\ ops' = ops + 1
    /\ UNCHANGED <<now, sent_today, running, pc, server_time, ulist, qfreq, idx,
                   ult, iss, pend, ridx, cur, log, ticks, crashes, loopvars,
                   stopvars, funvars, obsvars>>

\* cmd_session / start_session_planning (lines 130-189)
cmd_session(tg) ==
    /\ LifeRuns
    /\ HasRow(tg)
    /\ users' = update_user_activity(users, tg, now)
    /\ uobj' = DetachAll(uobj)
    /\ sobj' = DetachAll(sobj)
    /\ IF users[RowOf(tg)].reg
       THEN /\ fsm' = [fsm EXCEPT ![tg] = "session_input"]
            /\ fdata' = [fdata EXCEPT ![tg] = NoData]
       ELSE UNCHANGED <<fsm, fdata>>
    /\ UNCHANGED <<sessions, hopen>>
    /\ BookingFrame

\* handle_session_datetime_input (lines 191-263)
handle_session_datetime_input(tg, text) ==
    /\ LifeRuns
    /\ fsm[tg] = "session_input"
    /\ users' = update_user_activity(users, tg, now)
    /\ LET r == parse_datetime_input(text, now)
       IN IF r.error
          THEN UNCHANGED <<fsm, fdata>>
          ELSE /\ fdata' = [fdata EXCEPT
                              ![tg].session_datetime = isoformat(r.dt),
                              ![tg].reflection_datetime =
                                  isoformat(ReflectionTime(r.dt))]
               /\ fsm' = [fsm EXCEPT ![tg] = "session_confirm"]
    /\ UNCHANGED <<sessions, uobj, sobj, hopen>>
    /\ BookingFrame

\* handle_session_confirmation (lines 265-337) under require_trial_access
handle_session_confirmation(tg) ==
    /\ LifeRuns
    /\ fsm[tg] = "session_confirm"
    /\ LET tab == update_user_activity(users, tg, now)
           d == fdata[tg]
           sid == NextSessionId(sessions)
       IN IF ~HasRow(tg)
          THEN /\ users' = tab
               /\ UNCHANGED <<sessions, uobj, sobj, fsm, fdata>>
          ELSE IF ~HasAccess(tab[RowOf(tg)], now)
          THEN /\ users' = [tab EXCEPT ![RowOf(tg)] =
                                expiry_write(tab[RowOf(tg)], now, TRUE)]
               /\ uobj' = DetachAll(uobj)
               /\ sobj' = DetachAll(sobj)
               /\ UNCHANGED <<sessions, fsm, fdata>>
          ELSE IF d.session_datetime = <<>> \/ d.reflection_datetime = <<>>
          THEN /\ users' = tab
               /\ fsm' = [fsm EXCEPT ![tg] = "none"]
               /\ fdata' = [fdata EXCEPT ![tg] = NoData]
               /\ UNCHANGED <<sessions, uobj, sobj>>
          ELSE /\ sid \in SID
               /\ users' = tab
               /\ sessions' =
                    [sessions EXCEPT ![sid] =
                        [present |-> TRUE, uid |-> RowOf(tg),
                         sat |-> fromisoformat(d.session_datetime),
                         rat |-> fromisoformat(d.reflection_datetime),
                         sent |-> FALSE]]
               /\ uobj' = CommitClose(uobj)
               /\ sobj' = CommitClose(sobj)
               /\ fsm' = [fsm EXCEPT ![tg] = "none"]
               /\ fdata' = [fdata EXCEPT ![tg] = NoData]
    /\ UNCHANGED hopen
    /\ BookingFrame

\* handle_session_change (lines 339-362) under require_trial_access
handle_session_change(tg) ==
    /\ LifeRuns
    /\ fsm[tg] = "session_confirm"
    /\ HasRow(tg)
    /\ LET tab == update_user_activity(users, tg, now)
       IN IF HasAccess(tab[RowOf(tg)], now)
          THEN /\ users' = tab
               /\ fsm' = [fsm EXCEPT ![tg] = "session_input"]
          ELSE /\ users' = [tab EXCEPT ![RowOf(tg)] =
                                expiry_write(tab[RowOf(tg)], now, TRUE)]
               /\ fsm' = fsm
    /\ uobj' = DetachAll(uobj)
    /\ sobj' = DetachAll(sobj)
    /\ UNCHANGED <<sessions, hopen, fdata>>
    /\ BookingFrame

\* the texts a chat sends when asked for the date and time
DateTexts ==
    {DateText("date", d, h, 0) :
        d \in {StrfDate(Sunday0) - 1, StrfDate(Sunday0)}, h \in {9, 20}}
        \cup {DateText("today", None, h, m) : h \in {9, 20}, m \in {0, 60}}
        \cup {DateText("tomorrow", None, 9, 0), DateText("date", None, 9, 0),
              DateText("other", None, 0, 0)}

\* user 101 is registered and has one session whose prompt falls due
BookingInit ==
    /\ now \in StartTimes
    /\ users = [u \in UID |->
                  IF u = 1 THEN RegisteredUser(101, 2, 4, "active", None, now)
                  ELSE NoUser]
    /\ sessions = [s \in SID |->
                     IF s = 1
                     THEN BookedSession(1, now - Hours(REFLECTION_DELAY_HOURS))
                     ELSE NoSession]
    /\ Constructed
    /\ LoopIdle

BookingNext ==
    \/ SchedulerStep
    \/ Advance
    \/ \E tg \in LifeCallers : cmd_session(tg)
    \/ \E tg \in LifeCallers, text \in DateTexts :
         handle_session_datetime_input(tg, text)
    \/ \E tg \in LifeCallers : handle_session_confirmation(tg)
    \/ \E tg \in LifeCallers : handle_session_change(tg)

BookingSpec == BookingInit /\ [][BookingNext]_vars

(***************************************************************************)
(* Properties                                                              *)
(***************************************************************************)
Accepted(kind) == {r \in log : r.kind = kind /\ r.ok}
Called(kind) == {r \in log : r.kind = kind}

\* C1: within one process lifetime segment at most one periodic reminder is
\* accepted for a dedup key (user, local date, slot), whatever timezone
\* recalibrations and frequency changes are interleaved with the ticks.
C1_OncePerKey ==
    \A r1, r2 \in Accepted("periodic") :
        (r1.key = r2.key /\ r1.seg = r2.seg) => r1 = r2

\* C2: the tick loop evaluates every minute: when a tick is about to start,
\* every minute that has fully passed since the scheduler started was the
\* minute of some tick, whatever the ticks lasted.
C2_NoMinuteSkipped == \A m \in 0 .. (lt \div 60) - 1 : m \in lmin

\* C3: without a crash a due session gets exactly one accepted reflection
\* prompt, however many ticks run afterwards, and no prompt is sent for a
\* session before the server time has reached its reflection time.
C3_ExactlyOnePrompt ==
    /\ \A s \in SID : Cardinality({r \in Accepted("reflection") : r.sid = s}) <= 1
    /\ \A r \in Called("reflection") : sessions[r.sid].rat <= r.at

\* C4: the flag of a session is true only after a prompt for it was accepted,
\* and when the process has crashed once, at most two prompts (the first and
\* one duplicate) have been accepted for a session.
C4_FlagAfterSendOneDuplicate ==
    /\ \A s \in SID :
         sessions[s].sent => \E r \in Accepted("reflection") : r.sid = s
    /\ crashes = 1 =>
         \A s \in SID :
            Cardinality({r \in Accepted("reflection") : r.sid = s}) <= 2

\* C5: once the server time has reached the reflection time of a booked
\* session, a prompt for it is eventually accepted and its flag eventually
\* becomes true, whatever the user does with the account in between.
SessionDue(s) == sessions[s].present /\ sessions[s].rat <= now
SessionPrompted(s) ==
    sessions[s].sent /\ \E r \in Accepted("reflection") : r.sid = s
C5_EventuallyPrompted == \A s \in SID : SessionDue(s) ~> SessionPrompted(s)

\* C6: every periodic or weekly send goes to a user whose access status at
\* that tick is premium or trial_active.
UserLoopSends ==
    Called("periodic") \cup Called("motivation") \cup Called("weekly_reflection")
WeeklyCase(u, hm) ==
    /\ users[u].present /\ users[u].reg /\ users[u].name
    /\ users[u].freq = 0 /\ qfreq[u] = 0
    /\ GateStatus(users[u], server_time) \in {"premium", "trial_active"}
    /\ ~users[u].texp
    /\ ~is_user_actively_interacting(users[u], server_time)
    /\ IsSunday(UserLocalTime(server_time, users[u].tz))
    /\ StrfHM(UserLocalTime(server_time, users[u].tz)) = hm
C7_WeeklyIgnoresFrequency ==
    pc = "end" =>
        \A u \in UID :
            /\ WeeklyCase(u, HM(10, 0)) =>
                 \E r \in Called("motivation") : r.uid = u /\ r.at = server_time
            /\ WeeklyCase(u, HM(17, 0)) =>
                 \E r \in Called("weekly_reflection") : r.uid = u /\ r.at = server_time

\* C7 amended: the weekly broadcasts go only to users the tick's user query
\* selected, whose stored frequency was above 0 when the tick started; a user
\* whose frequency is 0 throughout a tick is sent neither of them in it.
C7_WeeklyNeedsFrequency ==
    /\ \A r \in Called("motivation") \cup Called("weekly_reflection") : r.qfreq > 0
    /\ pc = "end" =>
         \A u \in UID :
            WeeklyCase(u, HM(10, 0)) \/ WeeklyCase(u, HM(17, 0)) =>
                \A r \in log : r.uid = u /\ r.at = server_time =>
                    r.kind = "reflection"

\* a tick at local Sunday 10:00 has ended: the user with frequency 2 was sent
\* the motivational message, the user with frequency 0 was not
C7_Witness ==
    /\ pc = "end"
    /\ \E u \in UID :
         /\ WeeklyCase(u, HM(10, 0))
         /\ \A r \in Called("motivation") : r.uid # u
    /\ \E r \in Accepted("motivation") : r.at = server_time /\ r.dbfreq = 2

\* C8: no periodic reminder is sent to a user while the stored frequency of
\* that user is 0.
C8_NoPeriodicAfterZero == \A r \in Called("periodic") : r.dbfreq # 0

\* C9: a periodic key is never a weekly key: no send of a periodic reminder
\* tested the key of a weekly send, a marked slot key is never the motivation
\* or weekly reflection key of a user and date, and when a tick has run to
\* its end, a user who was sent the periodic reminder of the Sunday 17:00
\* slot in it was also sent the weekly reflection invitation of that Sunday,
\* in this tick or, if accepted, in an earlier one.
C9_KeysNeverCollide ==
    /\ \A r \in Called("periodic") :
         \A w \in Called("motivation") \cup Called("weekly_reflection") :
            r.key # w.key
    /\ \A k \in sent_today :
         \A tg \in TG, d \in 0 .. StrfDate(now) + 1 :
            /\ Len(k) = 3 /\ k[2][1] = "n" =>
                 k # MotivationKey(tg, d) /\ k # WeeklyReflectionKey(tg, d)
    /\ pc = "end" =>
         \A r \in Called("periodic") :
            (r.at = server_time /\ r.key[3] = <<"n", HM(17, 0)>>
                                /\ IsSunday(Days(r.key[2][2]))) =>
                \E w \in Called("weekly_reflection") :
                    /\ w.uid = r.uid
                    /\ w.key = WeeklyReflectionKey(r.tg, r.key[2][2])
                    /\ (w.at = server_time \/ w.ok)

\* a tick at local Sunday 17:00 has ended in which a user was sent both
\* messages, and both keys are marked
C9_Witness ==
    /\ pc = "end"
    /\ \E r \in Accepted("periodic") :
         /\ r.at = server_time
         /\ r.key[3] = <<"n", HM(17, 0)>>
         /\ r.key \in sent_today
         /\ \E w \in Accepted("weekly_reflection") :
              /\ w.uid = r.uid /\ w.at = server_time
              /\ w.key \in sent_today
              /\ w.key # r.key

\* C10: when the reflection scan of a tick has run to its end, every session
\* that was due in the tick and whose user is registered has its flag set or
\* was prompted in that tick, whatever the user's frequency, last activity
\* and trial_expired flag.
C10_ReflectionUngated ==
    pc = "end" =>
        \A s \in SID :
            (/\ sessions[s].present
             /\ sessions[s].rat <= server_time
             /\ users[sessions[s].uid].present
             /\ users[sessions[s].uid].reg) =>
                \/ sessions[s].sent
                \/ \E r \in Called("reflection") : r.sid = s /\ r.at = server_time

\* a prompt was accepted in the tick that has ended for a user whose
\* frequency is 0, whose trial is marked expired and who was active 5 minutes
\* before
C10_Witness ==
    /\ pc = "end"
    /\ \E r \in Accepted("reflection") :
         /\ r.at = server_time
         /\ r.dbfreq = 0 /\ r.texp /\ r.active
         /\ sessions[r.sid].sent


\* The two texts of a calibration call are 24-hour times
ValidText(x) == x.ok /\ x.h \in 0..23 /\ x.m \in 0..59
BothValid == ValidText(fin.user) /\ ValidText(fin.server)
IsCalibration == fin.f = "calculate_timezone_offset"
IsStatus == fin.f = "check_trial_status"

\* C17: check_trial_status applies its rules in order: premium whenever
\* is_premium is set, whatever the trial fields say; else no_trial when the
\* start or the end of the trial is unset; else trial_expired when now is
\* after the end; else trial_active with the number of whole days left, so
\* that now = trial_end_date is still active with 0 days.
C17_StatusRulesInOrder ==
    IsStatus =>
        LET u == fin.u
            t == fin.now
        IN /\ u.premium => fout.status = "premium"
           /\ (~u.premium /\ (u.tstart = None \/ u.tend = None))
                 => fout.status = "no_trial"
           /\ (~u.premium /\ u.tstart # None /\ u.tend # None /\ t > u.tend)
                 => fout.status = "trial_expired"
           /\ (~u.premium /\ u.tstart # None /\ u.tend # None /\ t <= u.tend)
                 => /\ fout.status = "trial_active"
                    /\ fout.days >= 0
                    /\ fout.days * Days(1) <= u.tend - t
                    /\ u.tend - t < (fout.days + 1) * Days(1)

C17_Witness ==
    /\ IsStatus
    /\ ~fin.u.premium /\ fin.u.tstart # None
    /\ fin.u.tend = fin.now
    /\ fout.status = "trial_active" /\ fout.days = 0

C19_CalibrationArithmetic ==
    (IsCalibration /\ BothValid) =>
        LET d0 == (fin.user.h * 60 + fin.user.m) - (fin.server.h * 60 + fin.server.m)
            d1 == IF d0 > 720 THEN d0 - 1440 ELSE IF d0 < -720 THEN d0 + 1440 ELSE d0
            Lim(x) == IF x < -12 THEN -12 ELSE IF x > 14 THEN 14 ELSE x
            o == fout.offset
        IN /\ d1 \in -720..720
           /\ \E raw \in -12..12 :
                /\ 60 * raw - d1 \in -30..30
                /\ o = Lim(raw + fin.off)
           /\ fout.label = IF o >= 0 THEN <<"U", "T", "C", "+">> \o PyStrNat(o)
                            ELSE <<"U", "T", "C", "-">> \o PyStrNat(-o)
           /\ (/\ fin.user = TimeStr(16, 54) /\ fin.server = TimeStr(13, 54)
               /\ fin.off = 3)
                 => o = 6 /\ fout.label = <<"U", "T", "C", "+", "6">>

C19_Witness ==
    /\ IsCalibration
    /\ fin.user = TimeStr(16, 54) /\ fin.server = TimeStr(13, 54) /\ fin.off = 3
    /\ fout.offset = 6 /\ fout.label = <<"U", "T", "C", "+", "6">>

\* C20: the call returns an offset only when both texts are valid 24-hour
\* times, and fails whenever either of them is not.
C20_FailsOnInvalidInput ==
    IsCalibration => (fout.error = "none" <=> BothValid)

\* C14: once stop() has been called, no new tick is started, whether the call
\* came before run_scheduler began, during a tick or during the sleep.
C14_NoTickAfterStop ==
    [][stopped => ~(pc = "start" /\ pc' # "start")]_vars

\* C15: a tick that is in progress when the scheduler is stopped, the
\* shutdown path of main() included, runs to its end: the scheduler is never
\* cut off at a send or at the delay that follows one.
C15_TickRunsToCompletion ==
    pc = "cancelled" => cut \in {"init", "sleep"}

\* C16: once trial_expired has been set for a user it is never found cleared
\* again unless upgrade_to_premium was applied to that user, whatever sweeps,
\* status checks, registrations and /reset commands happen.
C16_ExpiredStaysExpired ==
    \A tg \in was_expired : HasRow(tg) => users[RowOf(tg)].texp

\* C13: when the sweep of a tick fails, a user who is not premium, whose
\* trial_end_date is in the past and whose trial_expired is still false is
\* treated as ineligible: no periodic or weekly reminder reaches her in that
\* tick.
C13_SweepFailureFailsClosed ==
    \A r \in Accepted("periodic") \cup Accepted("motivation")
              \cup Accepted("weekly_reflection") :
        ~(r.gate = "trial_expired" /\ ~r.texp)

\* the users of the tick's query whose last activity, at the end of the tick,
\* is unset or more than the threshold before the tick
NotSuppressed(u) ==
    /\ \E i \in 1..Len(ulist) : ulist[i] = u
    /\ \/ users[u].last = None
       \/ server_time - users[u].last > ACTIVE_INTERACTION_THRESHOLD

RefusedNow == {r \in log : ~r.ok /\ r.at = server_time}

\* C12: a send that the transport refuses does not end the tick: when the
\* tick is over, every user of the loop who was due a periodic or weekly
\* reminder and every pending session of a registered user has had its send
\* attempted in this tick, also after a send of the tick has failed.
C12_TransportErrorNonFatal ==
    /\ RefusedNow # {} => pc # "finally"
    /\ (pc = "end" /\ RefusedNow # {}) =>
         /\ idx > Len(ulist) /\ ridx > Len(pend)
         /\ \A u \in UID :
              NotSuppressed(u) =>
                LET lt0 == UserLocalTime(server_time, users[u].tz)
                IN /\ StrfHM(lt0) \in notification_times[users[u].freq]
                        => \E r \in Called("periodic") : r.uid = u /\ r.at = server_time
                   /\ (IsSunday(lt0) /\ StrfHM(lt0) = HM(10, 0))
                        => \E r \in Called("motivation") :
                               r.uid = u /\ r.at = server_time
                   /\ (IsSunday(lt0) /\ StrfHM(lt0) = HM(17, 0))
                        => \E r \in Called("weekly_reflection") :
                               r.uid = u /\ r.at = server_time
         /\ \A i \in 1..Len(pend) :
              \E r \in Called("reflection") : r.sid = pend[i] /\ r.at = server_time

\* a tick has ended in which the first user's periodic send was refused and
\* the second user's reminder and the pending session's prompt were accepted
C12_Witness ==
    /\ pc = "end"
    /\ \E r \in RefusedNow : r.kind = "periodic" /\ r.uid = 1
    /\ \E r \in Accepted("periodic") : r.uid = 2 /\ r.at = server_time
    /\ \E r \in Accepted("reflection") : r.at = server_time

\* C30: the tick and the handlers do not interfere through the session they
\* share: no tick is ended early because a handler committed and closed the
\* session while the tick was suspended, and when a tick has ended every
\* reflection prompt accepted in it has its reflection_sent stored.
C30_NoSessionInterference ==
    /\ pc # "finally"
    /\ pc = "end" =>
         \A r \in Accepted("reflection") :
            r.at = server_time => sessions[r.sid].sent

\* C21: trial_expired is written by the tick loop only: the flag of a row is
\* set in no step but the sweep at the start of a tick, so no write of it
\* falls between the steps of a tick.
C21_SingleWriter ==
    [][(\E u \in UID : /\ users[u].present /\ users'[u].present
                       /\ ~users[u].texp /\ users'[u].texp)
         => pc = "start"]_vars

\* C28: every row with registration_complete set has both trial dates, the
\* end exactly the trial duration after the start, so check_trial_status
\* never answers no_trial for a user who went through the registration.
C28_RegisteredHaveTrial ==
    \A u \in UID :
        (users[u].present /\ users[u].reg) =>
            /\ users[u].tstart # None
            /\ users[u].tend = users[u].tstart + Days(TRIAL_DURATION_DAYS)
            /\ check_trial_status(users[u], now).status # "no_trial"

\* a user who sent /reset has completed the registration again
C28_Witness ==
    \E u \in UID :
        /\ users[u].present /\ users[u].reg
        /\ users[u].tstart >= Sunday0
        /\ fsm[users[u].tg] = "none"

\* the call found a user who is not premium, has both trial dates and whose
\* trial ended before the call
TrialOver == /\ ~fin.u.premium /\ fin.u.tstart # None /\ fin.u.tend # None
             /\ fin.now > fin.u.tend

\* C27: the expiry write of check_trial_status is idempotent: for a user
\* who is not premium and whose trial is over, the call that finds the flag
\* unset writes it, a call that finds it set writes nothing, also at any
\* later time, and every such call answers trial_expired whether or not the
\* write succeeded; a call that answers premium, no_trial or trial_active
\* writes nothing.
C27_LazyWriteIdempotent ==
    IsStatus =>
        /\ TrialOver => fout.status = "trial_expired"
        /\ (TrialOver /\ ~fin.u.texp /\ fin.commit_ok)
              => fout.row = [fin.u EXCEPT !.texp = TRUE]
        /\ (TrialOver /\ fin.u.texp) => fout.row = fin.u
        /\ (TrialOver /\ fout.row.texp) =>
              \A t \in {fin.now, fin.now + 1, fin.now + Days(1)}, ok \in BOOLEAN :
                  /\ expiry_write(fout.row, t, ok) = fout.row
                  /\ check_trial_status(fout.row, t).status = "trial_expired"
        /\ ~TrialOver =>
              /\ fout.status \in {"premium", "no_trial", "trial_active"}
              /\ fout.row = fin.u

\* a call that wrote the flag
C27_Witness ==
    /\ IsStatus /\ TrialOver
    /\ ~fin.u.texp /\ fout.row.texp
    /\ fout.status = "trial_expired"

\* the scheduler is between the sweep of a tick and the end of that tick
InTick == pc \notin {"init", "start", "sleep", "done", "cancelled"}

\* C26: after the sweep of a tick every registered user who is not premium
\* and whose trial_end_date lies before the tick's time has trial_expired
\* set, and trial_expired is never set for a user whose trial_end_date is
\* not yet in the past.
C26_FlagFollowsEndDate ==
    /\ InTick =>
         \A u \in UID :
            (/\ users[u].present /\ users[u].reg /\ ~users[u].premium
             /\ users[u].tend # None /\ users[u].tend < server_time)
              => users[u].texp
    /\ \A u \in UID :
         (users[u].present /\ users[u].texp)
           => users[u].tend # None /\ now > users[u].tend

\* the sweep of a tick has marked the user whose trial ended since the tick
\* before, with no handler having run
C26_Witness ==
    /\ InTick /\ ops = 0 /\ ticks >= 1
    /\ users[1].texp /\ ~users[1].premium
    /\ server_time - users[1].tend \in 1..60

KeyDate(k) == IF k[2][1] = "n" THEN k[2][2] ELSE k[Len(k)][2]

\* C24: after cleanup_old_tracking the map holds no entry, periodic or
\* weekly, whose date is more than 2 days before the server's date.
C24_CleanupPurgesOldEntries ==
    fin.f = "cleanup_old_tracking" =>
        \A k \in fout.sent : KeyDate(k) >= StrfDate(fin.now) - CLEANUP_DAYS

\* C25: while the scheduler runs, the dedup purge runs exactly once in a
\* server day, when the clock crosses midnight: when a tick is about to
\* start after the minute 00:00 has passed, the purge has run once, whatever
\* the ticks lasted.
C25_PurgeOncePerDay ==
    (lphase = "tick" /\ lt \div 60 > MidnightMinute) => Cardinality(lpurge) = 1

\* C22: every periodic reminder is sent at a tick whose local time, the
\* server time less the server's offset plus the user's stored offset, has an
\* HH:MM that is a slot of the user's stored frequency in the table, and the
\* key it tested carries the date and HH:MM of that local time.
C22_SentOnlyAtLocalSlot ==
    \A r \in Called("periodic") :
        LET lt_ == UserLocalTime(r.at, r.dbtz)
        IN /\ r.dbfreq \in DOMAIN notification_times
           /\ StrfHM(lt_) \in notification_times[r.dbfreq]
           /\ r.key = PeriodicKey(r.tg, StrfDate(lt_), StrfHM(lt_))

\* the places of a tick in the loop over its users, and in the scan of the
\* sessions whose reflection prompt is due
UserLoopPcs == {"user", "psend", "pslept", "wm", "msend", "mslept", "wr",
                "wsend", "wslept"}
ScanPcs == {"refl", "rsend", "rslept", "end"}

TickOrder ==
    /\ InTick => SweepHits(users, server_time) = {}
    /\ pc \in UserLoopPcs =>
         /\ pend = <<>>
         /\ \A r \in Called("reflection") : r.at # server_time
    /\ pc \in ScanPcs => idx > Len(ulist)
    /\ \A r \in UserLoopSends :
         LET u == users[r.uid]
         IN ~(~u.premium /\ u.tend # None /\ u.tend < r.at)

PurgeOnlyAfterTick ==
    (\E k \in sent_today : k \notin sent_today')
        => (pc \in {"end", "finally"} /\ pc' = "sleep")

\* C23: a tick runs the sweep of the expired trials, then the loop over its
\* users (periodic and weekly reminders), then the scan of the due sessions,
\* and keys are purged only after the tick: while the tick is in the loop
\* over its users the scan has not begun, in the scan the loop is over, no
\* key leaves the dedup map but in the step that ends the tick, and as the
\* sweep is committed before the users are read, no periodic or weekly
\* reminder goes to a user who is not premium and whose trial_end_date was
\* before the tick's start.
C23_TickOrder == []TickOrder /\ [][PurgeOnlyAfterTick]_vars

\* a tick has run to its end in which the user whose trial ended a minute
\* before stood at a slot and was passed over by the loop, the user on trial
\* got the reminder, and the scan that followed sent the first user's
\* session prompt
C23_Witness ==
    /\ pc = "end"
    /\ users[2].texp /\ ~users[2].premium /\ users[2].tend = server_time - 1
    /\ should_send_notification(users[2], server_time, sent_today)
    /\ \A i \in 1 .. Len(ulist) : ulist[i] # 2
    /\ \A r \in UserLoopSends : r.at = server_time => r.uid = 1
    /\ \E r \in Accepted("periodic") : r.at = server_time /\ r.uid = 1
    /\ \E r \in Accepted("reflection") : r.at = server_time /\ r.uid = 2

\* the difference of the two times of a calibration call, taken to its
\* representative between -720 and 720 (lines 44-50)
CallDiff ==
    LET d0 == (fin.user.h * 60 + fin.user.m) - (fin.server.h * 60 + fin.server.m)
    IN IF d0 > 720 THEN d0 - 1440 ELSE IF d0 < -720 THEN d0 + 1440 ELSE d0

\* C40: the rounding of a calibration returns an integer within half an
\* hour of diff/60 and takes an exact half hour to the even neighbour: 30
\* gives 0, 90 gives 2, 150 gives 2, -30 gives 0, -90 gives -2, so that
\* differences of 1h30 and of 2h30 give the same raw offset 2.  (At server
\* offset 0 the offset returned is the raw offset.)
C40_HalfHourToEven ==
    (IsCalibration /\ BothValid /\ fin.off = 0) =>
        LET raw == fout.offset
        IN /\ 60 * raw - CallDiff \in -30..30
           /\ CallDiff % 60 = 30 => raw % 2 = 0
           /\ CallDiff = 30 => raw = 0
           /\ CallDiff = 90 => raw = 2
           /\ CallDiff = 150 => raw = 2
           /\ CallDiff = -30 => raw = 0
           /\ CallDiff = -90 => raw = -2

\* a clock 2h30 ahead of the server's, across midnight, got the raw offset 2
C40_Witness ==
    /\ IsCalibration /\ fin.off = 0
    /\ fin.user = TimeStr(1, 30) /\ fin.server = TimeStr(23, 0)
    /\ CallDiff = 150
    /\ fout.offset = 2

\* the step is a call of one of the two timezone handlers in which
\* calculate_timezone_offset returned an error
TimeRefused ==
    /\ ops' = ops + 1
    /\ fin'.f \in {"save_timezone_from_time", "handle_timezone_change_from_time"}
    /\ fout'.error \in {"format", "range"}

\* C31: an error of the calibration is never persisted: when
\* calculate_timezone_offset returns an error in the registration's timezone
\* handler or in the change-timezone handler, the user's stored offset and
\* label are as before and the chat's dialogue stays in the timezone-input
\* state.
C31_ErrorsNotPersisted ==
    [][TimeRefused =>
         LET tg == fin'.tg
             uid == RowOf(tg)
         IN /\ users'[uid].tz = users[uid].tz
            /\ users'[uid].label = users[uid].label
            /\ fsm'[tg] = fsm[tg]
            /\ fsm'[tg] \in {"tz", "tz_change"}]_vars

\* the registered user asked to change the timezone and typed 24:00: the
\* time was refused, the row holds the offset and label it had, and the
\* dialogue waits for another time
C31_Witness ==
    /\ fin.f = "handle_timezone_change_from_time"
    /\ fin.tg = 101 /\ fin.text = TimeStr(24, 0)
    /\ fout.error = "range"
    /\ users[1].tz = 3 /\ users[1].label = <<"U", "T", "C", "+", "3">>
    /\ fsm[101] = "tz_change"

\* C39: every user's notification_frequency is one of 0, 1, 2, 4, 6 and
\* every user's timezone_offset is an integer from -12 to 14, after any
\* sequence of registration steps, /notify frequency selections and
\* timezone recalibrations.
C39_SettingsInRange ==
    \A u \in UID :
        users[u].present =>
            /\ users[u].freq \in {0, 1, 2, 4, 6}
            /\ users[u].tz \in -12 .. 14

\* chat 102 has given a time and chosen 6 reminders a day in its
\* registration, and the registered chat 101 has recalibrated to a clock
\* twelve hours ahead of the server's, which the clamp took to 14
C39_Witness ==
    /\ fsm[102] = "therapist"
    /\ users[2].freq = 6 /\ users[2].tz # 0
    /\ users[1].tz = 14 /\ users[1].label = <<"U", "T", "C", "+", "1", "4">>

\* every row's reflection time is five hours after its session time, and so
\* are the two times a dialogue carries to its confirmation
FiveHoursLater ==
    /\ \A k \in SID :
         sessions[k].present => sessions[k].rat = sessions[k].sat + Hours(5)
    /\ \A tg \in TG :
         fsm[tg] = "session_confirm" =>
            /\ fdata[tg].session_datetime # <<>>
            /\ fromisoformat(fdata[tg].reflection_datetime)
                  = fromisoformat(fdata[tg].session_datetime) + Hours(5)

\* a row keeps its two times, and a new row has reflection_sent unset
TimesKept ==
    \A k \in SID :
        /\ (sessions[k].present /\ sessions'[k].present) =>
              /\ sessions'[k].sat = sessions[k].sat
              /\ sessions'[k].rat = sessions[k].rat
        /\ (~sessions[k].present /\ sessions'[k].present) => ~sessions'[k].sent

\* C32: every therapy_sessions row has reflection_datetime = session_datetime
\* + 5 hours: the value is computed when the user enters the date, is carried
\* unchanged through the confirmation, and is never changed afterwards; every
\* row is created with reflection_sent = False.
C32_ReflectionFiveHoursAfter == []FiveHoursLater /\ [][TimesKept]_vars

\* the user has booked a session for the evening in this run, and the prompt
\* of the session booked earlier has been sent and recorded
C32_Witness ==
    /\ sessions[2].present /\ ~sessions[2].sent /\ sessions[2].uid = 1
    /\ sessions[2].sat = Sunday0 + HM(20, 0)
    /\ sessions[2].rat = Sunday0 + Days(1) + HM(1, 0)
    /\ sessions[1].sent
    /\ fsm[101] = "none"


\* C33: reflection_sent of a TherapySession row only ever goes from False to
\* True, the step that flips it is the scheduler's reflection send
\* (lines 319-322) for that very row, and no step deletes a row or changes
\* its user, its session time or its reflection time.
SentMonotone ==
    \A k \in SID :
        sessions[k].present =>
            /\ sessions'[k].present
            /\ sessions'[k].uid = sessions[k].uid
            /\ sessions'[k].sat = sessions[k].sat
            /\ sessions'[k].rat = sessions[k].rat
            /\ sessions[k].sent => sessions'[k].sent
            /\ (~sessions[k].sent /\ sessions'[k].sent) =>
                   /\ pc = "rsend"
                   /\ pc' = "rslept"
                   /\ iss.sid = k
                   /\ \A j \in SID \ {k} : sessions'[j] = sessions[j]

C33_ReflectionSentMonotone == [][SentMonotone]_vars

\* the scheduler has just marked session 1 while a later booking of the same
\* user is stored and still unmarked
C33_Witness ==
    /\ pc = "rslept"
    /\ sessions[1].present /\ sessions[1].sent
    /\ sessions[2].present /\ ~sessions[2].sent
    /\ sessions[2].rat > now


\* C38: the reflection prompt of a session goes only to the chat that booked
\* it.  Session 1 was booked by chat 101, so every reflection prompt the
\* transport accepted for session 1 went to chat 101.
C38_PromptOnlyToBooker ==
    \A r \in log : (r.kind = "reflection" /\ r.sid = 1 /\ r.ok) => r.tg = 101


\* C34: a weekly motivational message is sent only at a tick where the user's
\* local time, by the stored offset, is Sunday 10:00, a weekly reflection
\* invitation only at local Sunday 17:00, and within one scheduler instance
\* the transport accepts each at most once per user and local date.
WeeklyLocal(r) == UserLocalTime(r.at, r.dbtz)

C34_WeeklyAtLocalSunday ==
    /\ \A r \in Called("motivation") :
           IsSunday(WeeklyLocal(r)) /\ StrfHM(WeeklyLocal(r)) = HM(10, 0)
    /\ \A r \in Called("weekly_reflection") :
           IsSunday(WeeklyLocal(r)) /\ StrfHM(WeeklyLocal(r)) = HM(17, 0)
    /\ \A r1, r2 \in Called("motivation") \cup Called("weekly_reflection") :
           ( /\ r1.kind = r2.kind /\ r1.tg = r2.tg /\ r1.seg = r2.seg
             /\ r1.ok /\ r2.ok
             /\ StrfDate(WeeklyLocal(r1)) = StrfDate(WeeklyLocal(r2)) )
           => r1.at = r2.at


\* C35: every key of the dedup map is the key of a message the transport
\* accepted: the key that should_send_notification tested (or the weekly key
\* that was looked up) before that send in the same scheduler instance.
C35_KeysOfAcceptedSends ==
    \A k \in sent_today :
        \E r \in log : r.ok /\ r.key = k /\ r.seg = crashes


\* the ticks of the hours after a purge that are looked at
HorizonHours == 48

\* the key should_send_notification would look up for the chat at a tick of
\* one of the coming hours, under some stored offset from -12 to 14
Matchable(k, t) ==
    \E o \in -12 .. 14, h \in 0 .. HorizonHours :
        KeyOfNow([tg |-> k[1][2], tz |-> o], t + Hours(h)) = k

\* C36: cleanup_old_tracking removes no entry whose key the user's ticks can
\* still look up, at the tick of the purge or later, under any stored offset
\* from -12 to 14.
C36_PurgeKeepsMatchableKeys ==
    fin.f = "cleanup_old_tracking" =>
        \A k \in fin.sent \ fout.sent : ~Matchable(k, fin.now)

\* a purge that removed an old periodic entry and kept yesterday's, which a
\* tick of the coming hours looks up for a user far west of the server
C36_Witness ==
    /\ fin.f = "cleanup_old_tracking"
    /\ PeriodicKey(101, StrfDate(fin.now) - (CLEANUP_DAYS + 1), HM(12, 0))
           \in fin.sent \ fout.sent
    /\ PeriodicKey(101, StrfDate(fin.now) - 1, HM(12, 0)) \in fout.sent
    /\ Matchable(PeriodicKey(101, StrfDate(fin.now) - 1, HM(12, 0)), fin.now)


\* C37: an exception raised in a tick (in the user query, in a commit, or in
\* the sweep, which catches its own) does not end the scheduler: no step of a
\* tick unsets running, the step after the except clause is the sleep, the
\* sleep lasts one minute, and while the scheduler is running run_scheduler
\* is always eventually back at the start of a tick.
ErrorKeepsRunning ==
    /\ running => running'
    /\ pc = "finally" => pc' = "sleep"
    /\ (pc = "sleep" /\ pc' # "sleep") => (pc' = "start" /\ now' <= now + 1)

C37_TickAfterError ==
    /\ [][ErrorKeepsRunning]_vars
    /\ [](running => <>(pc = "start"))

\* the commit of reflection_sent has failed twice: the tick after the first
\* failure sent the prompt again and failed again
C37_Witness ==
    /\ pc = "finally"
    /\ running
    /\ Cardinality({r \in Accepted("reflection") : r.sid = 1}) = 2
    /\ ~sessions[1].sent

====
